---- MODULE Spec2Model ----
(***************************************************************************)
(* Access control and security-audit core of the team collaboration        *)
(* platform: RBACService (roles, role assignments, permission queries,     *)
(* role administration), the permission gate and the team routes, and      *)
(* AuditService (audit log, anomaly detection, security incidents).        *)
(*                                                                         *)
(* Every handler is an async function; each `await` on the database is a   *)
(* point where another request may run, so a handler that reads and then   *)
(* writes is modelled as one step per database call.                       *)
(***************************************************************************)
EXTENDS Integers, Sequences, FiniteSets, TLC

VARIABLES
    now,          \* wall clock (minutes), the value of new Date()/Date.now()
    roles,        \* table Role:      set of [id, name, permissions, isSystem]
    userRoles,    \* table UserRole:  sequence of rows, in insertion order
    uniqueIdx,    \* whether table UserRole carries a unique (userId, roleId) index
    roleFk,       \* how UserRole.roleId references table Role: the foreign key's rule
    users,        \* table User:      user -> [failedLoginCount, lockedUntil]
    memoryStore,  \* the Map of the rate limiter: set of [key, count, resetTime]
    teamMembers,  \* table TeamMember: [team, user] -> row or NoRow (unique key)
    auditLogs,    \* table AuditLog:  sequence of rows, in insertion order
    incidents,    \* table SecurityIncident: sequence of rows, in insertion order
    proc,         \* the request handlers in flight, one record per handler slot
    resp          \* the value returned by the last completed query

vars == <<now, roles, userRoles, uniqueIdx, roleFk, users, memoryStore, teamMembers, auditLogs, incidents, proc, resp>>

(***************************************************************************)
(* Bounds of the model                                                     *)
(***************************************************************************)
MaxNow == 2
MaxRows == 2

Null == "null"
\* a null DateTime column; every real instant is >= 0
NullDate == -1
NoRow == [role |-> "none", leftAt |-> NullDate]
NoRole == [id |-> Null, name |-> Null, permissions |-> <<>>, isSystem |-> FALSE]
Users == {"u1", "u2"}
Teams == {"t1", "t2"}
Procs == {1, 2}
Grantor == "u2"

\* table User with no failed login recorded and no account locked
NoFailures == [u \in Users |-> [failedLoginCount |-> 0, lockedUntil |-> NullDate]]

(***************************************************************************)
(* Generic helpers                                                         *)
(***************************************************************************)
Includes(arr, x) == \E i \in 1..Len(arr) : arr[i] = x

ToSet(arr) == {arr[i] : i \in 1..Len(arr)}

(***************************************************************************)
(* RBAC service: permission catalog and default roles                      *)
(***************************************************************************)
PERMISSIONS ==
    << "users:read", "users:write", "users:delete", "users:manage_roles",
       "teams:read", "teams:write", "teams:delete", "teams:manage_members",
       "projects:read", "projects:write", "projects:delete", "projects:manage",
       "documents:read", "documents:write", "documents:delete", "documents:export",
       "github:read", "github:write", "github:sync",
       "ai:analyze", "ai:view_suggestions",
       "hr:view_all", "hr:suggestions", "hr:reports",
       "admin:dashboard", "admin:audit_logs", "admin:security",
       "admin:compliance", "admin:system",
       "compliance:view", "compliance:manage", "compliance:export" >>

DEFAULT_ROLES ==
    [ admin |-> PERMISSIONS,
      hr_manager |->
        << "users:read", "teams:read", "projects:read", "documents:read",
           "github:read", "ai:view_suggestions", "hr:view_all", "hr:suggestions",
           "hr:reports", "compliance:view" >>,
      team_lead |->
        << "users:read", "teams:read", "teams:write", "teams:manage_members",
           "projects:read", "projects:write", "projects:manage",
           "documents:read", "documents:write", "github:read", "github:write",
           "github:sync", "ai:analyze", "ai:view_suggestions" >>,
      member |->
        << "users:read", "teams:read", "projects:read", "projects:write",
           "documents:read", "documents:write", "github:read", "github:write",
           "ai:analyze" >>,
      viewer |->
        << "users:read", "teams:read", "projects:read", "documents:read",
           "github:read" >> ]

\* The Role table once initializeRoles has run at bootstrap: one system role
\* per entry of DEFAULT_ROLES, the role's id written as "r_" + name.
initializeRoles ==
    { [id |-> "r_admin", name |-> "admin",
       permissions |-> DEFAULT_ROLES.admin, isSystem |-> TRUE],
      [id |-> "r_hr_manager", name |-> "hr_manager",
       permissions |-> DEFAULT_ROLES.hr_manager, isSystem |-> TRUE],
      [id |-> "r_team_lead", name |-> "team_lead",
       permissions |-> DEFAULT_ROLES.team_lead, isSystem |-> TRUE],
      [id |-> "r_member", name |-> "member",
       permissions |-> DEFAULT_ROLES.member, isSystem |-> TRUE],
      [id |-> "r_viewer", name |-> "viewer",
       permissions |-> DEFAULT_ROLES.viewer, isSystem |-> TRUE] }

(***************************************************************************)
(* Errors and the central error handler                                    *)
(***************************************************************************)
NoError == [name |-> "none", message |-> "", code |-> Null]

\* throw new Error(message)
PlainError(message) == [name |-> "Error", message |-> message, code |-> Null]

\* a rejected Prisma call: PrismaClientKnownRequestError with its code
PrismaError(code) == [name |-> "PrismaClientKnownRequestError", message |-> "", code |-> code]

\* the status code errorHandler answers with for an error passed to next()
errorHandler(err) ==
    IF err.code = "P2002" THEN 409
    ELSE IF err.code = "P2025" THEN 404
    ELSE IF err.name = "ConflictError" THEN 409
    ELSE IF err.name = "NotFoundError" THEN 404
    ELSE IF err.name = "AuthorizationError" THEN 403
    ELSE IF err.name = "ValidationError" THEN 400
    ELSE 500

\* new AuthorizationError(message)
AuthorizationError(message) == [name |-> "AuthorizationError", message |-> message, code |-> "AUTHORIZATION_ERROR"]

(***************************************************************************)
(* RBAC service: queries                                                   *)
(***************************************************************************)
RoleByName(roleName) ==
    IF \E r \in roles : r.name = roleName
    THEN CHOOSE r \in roles : r.name = roleName
    ELSE NoRole

RoleById(roleId) == CHOOSE r \in roles : r.id = roleId

\* the filter with gte in place of gt: a row still counts at its expiry instant
NotExpired_gte(row, t) == row.expiresAt = NullDate \/ row.expiresAt >= t

\* where: { OR: [{ expiresAt: null }, { expiresAt: { gt: new Date() } }] }
NotExpired(row, t) == row.expiresAt = NullDate \/ row.expiresAt > t

\* prisma.userRole.findMany({ where: { userId, OR: [...] }, include: { role } })
FindActiveUserRoles(userId, t) ==
    SelectSeq(userRoles, LAMBDA row : row.userId = userId /\ NotExpired(row, t))

hasPermission(userId, permission, t) ==
    LET rows == FindActiveUserRoles(userId, t)
    IN  \E i \in 1..Len(rows) : Includes(RoleById(rows[i].roleId).permissions, permission)

hasRole(userId, roleName, t) ==
    \E i \in 1..Len(userRoles) :
        /\ userRoles[i].userId = userId
        /\ RoleById(userRoles[i].roleId).name = roleName
        /\ NotExpired(userRoles[i], t)

\* permissions.forEach(p => set.add(p)): a Set keeps the first insertion only
RECURSIVE SetAddAll(_, _, _)
SetAddAll(acc, arr, i) ==
    IF i > Len(arr) THEN acc
    ELSE SetAddAll(IF Includes(acc, arr[i]) THEN acc ELSE Append(acc, arr[i]), arr, i + 1)

\* the collection stopping after the first assignment instead of visiting all
CollectPermissions_firstOnly(acc, rows, i) ==
    IF i > Len(rows) THEN acc
    ELSE SetAddAll(acc, RoleById(rows[i].roleId).permissions, 1)

RECURSIVE CollectPermissions(_, _, _)
CollectPermissions(acc, rows, i) ==
    IF i > Len(rows) THEN acc
    ELSE CollectPermissions(SetAddAll(acc, RoleById(rows[i].roleId).permissions, 1), rows, i + 1)

getUserPermissions(userId, t) ==
    CollectPermissions(<<>>, FindActiveUserRoles(userId, t), 1)

(***************************************************************************)
(* RBAC service: assignRole and revokeRole, one step per database call     *)
(***************************************************************************)
Idle == [op |-> "idle", pc |-> "idle", thrown |-> NoError, status |-> 0]
NoResp == [op |-> "none"]

Free(p) == proc[p].pc \in {"idle", "done"}

\* the call has thrown err (or returned, when err = NoError); status is the
\* status code of the response
Done(op, err) ==
    [op |-> op, pc |-> "done", thrown |-> err,
     status |-> IF err = NoError THEN 200 ELSE errorHandler(err)]

\* the handler has answered itself with res.status(status).json(...)
Replied(op, status) == [op |-> op, pc |-> "done", thrown |-> NoError, status |-> status]

ExpiresAt == 1
ExpiryChoices == {NullDate, ExpiresAt}
RoleNames == {"member", "viewer", "ghost"}

PendingCreates == Cardinality({q \in Procs : proc[q].op = "assignRole" /\ proc[q].pc # "done"})

\* findFirst({ where: { userId, roleId, OR: [{ expiresAt: null }, { expiresAt: { gt: new Date() } }] } })
HasRow_notExpired(userId, roleId) ==
    \E i \in 1..Len(userRoles) :
        /\ userRoles[i].userId = userId /\ userRoles[i].roleId = roleId
        /\ NotExpired(userRoles[i], now)

HasRow(userId, roleId) ==
    \E i \in 1..Len(userRoles) : userRoles[i].userId = userId /\ userRoles[i].roleId = roleId

AssignInFlight(p) == proc[p].op = "assignRole" /\ proc[p].pc \in {"findExisting", "create"}

\* q is an assignRole call in flight for the (userId, roleId) pair of p's call.
\* The field rival of a call in flight is history: it records that another
\* assignRole call for the same pair has succeeded while this one was running.
SamePair(q, p) ==
    /\ AssignInFlight(q)
    /\ proc[q].userId = proc[p].userId
    /\ proc[q].roleId = proc[p].roleId

\* what no step of assignRole or revokeRole touches; the answer of an earlier
\* query is dropped as soon as another call runs
Frame_rbac ==
    /\ UNCHANGED <<roles, uniqueIdx, roleFk, users, memoryStore, teamMembers, auditLogs, incidents>>
    /\ resp' = NoResp

\* const role = await prisma.role.findUnique({ where: { name: roleName } })
AssignRole_findRole(p, userId, roleName, expiresAt) ==
    /\ Free(p)
    /\ Len(userRoles) + PendingCreates < MaxRows
    /\ LET role == RoleByName(roleName)
       IN  proc' = [proc EXCEPT ![p] =
                IF role = NoRole
                THEN Done("assignRole", PlainError("Role not found"))
                ELSE [op |-> "assignRole", pc |-> "findExisting", thrown |-> NoError,
                      userId |-> userId, roleName |-> roleName, roleId |-> role.id,
                      grantedBy |-> Grantor, expiresAt |-> expiresAt, rival |-> FALSE]]
    /\ UNCHANGED <<now, userRoles>>
    /\ Frame_rbac

\* const existingAssignment = await prisma.userRole.findFirst({ where: { userId, roleId } })
AssignRole_findExisting(p) ==
    /\ proc[p].op = "assignRole" /\ proc[p].pc = "findExisting"
    /\ proc' = [proc EXCEPT ![p] =
            IF HasRow(proc[p].userId, proc[p].roleId)
            THEN Done("assignRole", PlainError("User already has role"))
            ELSE [proc[p] EXCEPT !.pc = "create"]]
    /\ UNCHANGED <<now, userRoles>>
    /\ Frame_rbac

\* await prisma.userRole.create({ data: { userId, roleId, grantedBy, expiresAt } })
AssignRole_create(p) ==
    /\ proc[p].op = "assignRole" /\ proc[p].pc = "create"
    /\ IF uniqueIdx /\ HasRow(proc[p].userId, proc[p].roleId)
       THEN /\ proc' = [proc EXCEPT ![p] = Done("assignRole", PrismaError("P2002"))]
            /\ UNCHANGED userRoles
       ELSE IF roleFk # "none" /\ ~\E r \in roles : r.id = proc[p].roleId
       THEN /\ proc' = [proc EXCEPT ![p] = Done("assignRole", PrismaError("P2003"))]
            /\ UNCHANGED userRoles
       ELSE /\ userRoles' = Append(userRoles,
                    [userId |-> proc[p].userId, roleId |-> proc[p].roleId,
                     grantedBy |-> proc[p].grantedBy, expiresAt |-> proc[p].expiresAt])
            /\ proc' = [q \in Procs |->
                    IF q = p THEN Done("assignRole", NoError)
                    ELSE IF SamePair(q, p) THEN [proc[q] EXCEPT !.rival = TRUE]
                    ELSE proc[q]]
    /\ UNCHANGED now
    /\ Frame_rbac

\* const role = await prisma.role.findUnique({ where: { name: roleName } })
RevokeRole_findRole(p, userId, roleName) ==
    /\ Free(p)
    /\ LET role == RoleByName(roleName)
       IN  proc' = [proc EXCEPT ![p] =
                IF role = NoRole
                THEN Done("revokeRole", PlainError("Role not found"))
                ELSE [op |-> "revokeRole", pc |-> "deleteMany", thrown |-> NoError,
                      userId |-> userId, roleName |-> roleName, roleId |-> role.id]]
    /\ UNCHANGED <<now, userRoles>>
    /\ Frame_rbac

\* await prisma.userRole.deleteMany({ where: { userId, roleId: role.id } })
RevokeRole_deleteMany(p) ==
    /\ proc[p].op = "revokeRole" /\ proc[p].pc = "deleteMany"
    /\ userRoles' = SelectSeq(userRoles,
            LAMBDA row : ~(row.userId = proc[p].userId /\ row.roleId = proc[p].roleId))
    /\ proc' = [proc EXCEPT ![p] = Done("revokeRole", NoError)]
    /\ UNCHANGED now
    /\ Frame_rbac

\* the clock moves on
Tick ==
    /\ now < MaxNow
    /\ now' = now + 1
    /\ resp' = NoResp
    /\ UNCHANGED <<roles, userRoles, uniqueIdx, roleFk, users, memoryStore, teamMembers, auditLogs, incidents, proc>>

\* assignRole itself does not say whether the storage layer enforces one row
\* per (userId, roleId); both cases are covered.
UserRoleUniqueIndex == BOOLEAN

\* Nor does the code say how the storage layer treats a ledger row whose role
\* is missing: no foreign key, one that restricts deleting a referenced role,
\* or one that deletes the referencing rows with it.
RoleForeignKey == {"none", "restrict", "cascade"}

EmptyTeamMembers == [k \in Teams \X Users |-> NoRow]

InitAssign ==
    /\ now = 0
    /\ roles = initializeRoles
    /\ userRoles = <<>>
    /\ uniqueIdx \in UserRoleUniqueIndex
    /\ roleFk = "restrict"   \* read when a role is deleted only
    /\ users = NoFailures
    /\ memoryStore = {}
    /\ teamMembers = EmptyTeamMembers
    /\ auditLogs = <<>>
    /\ incidents = <<>>
    /\ proc = [p \in Procs |-> Idle]
    /\ resp = NoResp

NextAssign ==
    \/ \E p \in Procs, userId \in Users, roleName \in RoleNames, expiresAt \in ExpiryChoices :
            AssignRole_findRole(p, userId, roleName, expiresAt)
    \/ \E p \in Procs : AssignRole_findExisting(p)
    \/ \E p \in Procs : AssignRole_create(p)
    \/ \E p \in Procs, userId \in Users, roleName \in RoleNames :
            RevokeRole_findRole(p, userId, roleName)
    \/ \E p \in Procs : RevokeRole_deleteMany(p)
    \/ Tick

SpecAssign == InitAssign /\ [][NextAssign]_vars

\* the same calls made one after the other: handler slot 1 only
NextAssignSeq ==
    \/ \E userId \in Users, roleName \in RoleNames, expiresAt \in ExpiryChoices :
            AssignRole_findRole(1, userId, roleName, expiresAt)
    \/ AssignRole_findExisting(1)
    \/ AssignRole_create(1)
    \/ \E userId \in Users, roleName \in RoleNames : RevokeRole_findRole(1, userId, roleName)
    \/ RevokeRole_deleteMany(1)
    \/ Tick

SpecAssignSeq == InitAssign /\ [][NextAssignSeq]_vars

(***************************************************************************)
(* Properties of role assignment                                           *)
(***************************************************************************)
NoDuplicateRows ==
    \A i, j \in 1..Len(userRoles) :
        (userRoles[i].userId = userRoles[j].userId /\ userRoles[i].roleId = userRoles[j].roleId)
            => i = j

\* the step in which the assignRole call of p returns or throws
AssignCompletes(p) == AssignInFlight(p) /\ proc'[p].pc = "done"

\* C1: of two concurrent assignRole calls for one (actor, role) pair at most one
\* succeeds: a call that was overtaken by a successful call for its pair is
\* rejected with a conflict (409) and adds no row, and the ledger never holds
\* two rows for one pair.
C1_ConcurrentAssignHasOneWinner ==
    [][ /\ NoDuplicateRows'
        /\ \A p \in Procs :
              (AssignCompletes(p) /\ proc[p].rival)
                  => /\ errorHandler(proc'[p].thrown) = 409
                     /\ userRoles' = userRoles ]_vars

\* C8: a second assignRole for a pair that has a row is rejected with
\* ConflictError and leaves the ledger unchanged; when the pair has no row
\* (never assigned, or revoked) assignRole succeeds and adds the row.
C8_DuplicateAssignIsConflictError ==
    [][ \A p \in Procs :
          AssignCompletes(p) =>
              IF HasRow(proc[p].userId, proc[p].roleId)
              THEN /\ proc'[p].thrown.name = "ConflictError"
                   /\ userRoles' = userRoles
              ELSE /\ proc'[p].thrown = NoError
                   /\ \E i \in 1..Len(userRoles') :
                         /\ userRoles'[i].userId = proc[p].userId
                         /\ userRoles'[i].roleId = proc[p].roleId ]_vars

(***************************************************************************)
(* Resolution queries against the ledger: each is one database read        *)
(***************************************************************************)
QueryPerms == {"teams:write", "projects:write", "users:read"}

Frame_query == UNCHANGED <<now, roles, userRoles, uniqueIdx, roleFk, users, memoryStore, teamMembers, auditLogs, incidents, proc>>

HasPermission(userId, permission) ==
    /\ resp' = [op |-> "hasPermission", userId |-> userId, arg |-> permission,
                result |-> hasPermission(userId, permission, now)]
    /\ Frame_query

HasRole(userId, roleName) ==
    /\ resp' = [op |-> "hasRole", userId |-> userId, arg |-> roleName,
                result |-> hasRole(userId, roleName, now)]
    /\ Frame_query

GetUserPermissions(userId) ==
    /\ resp' = [op |-> "getUserPermissions", userId |-> userId, arg |-> Null,
                result |-> getUserPermissions(userId, now)]
    /\ Frame_query

\* calls made one after the other: a query runs between two ledger calls
NextResolve ==
    \/ NextAssignSeq
    \/ \E userId \in Users, permission \in QueryPerms :
            Free(1) /\ HasPermission(userId, permission)
    \/ \E userId \in Users, roleName \in RoleNames :
            Free(1) /\ HasRole(userId, roleName)
    \/ \E userId \in Users :
            Free(1) /\ GetUserPermissions(userId)

SpecResolve == InitAssign /\ [][NextResolve]_vars

(***************************************************************************)
(* Properties of the resolution queries                                    *)
(***************************************************************************)
\* the rows of the ledger that assign a role to userId and have not expired at t
LiveRows(userId, t) ==
    {i \in 1..Len(userRoles) :
        /\ userRoles[i].userId = userId
        /\ (userRoles[i].expiresAt = NullDate \/ userRoles[i].expiresAt > t)}

DeadRows(userId, t) ==
    {i \in 1..Len(userRoles) :
        /\ userRoles[i].userId = userId
        /\ userRoles[i].expiresAt # NullDate
        /\ userRoles[i].expiresAt <= t}

PermissionsOfRole(roleId) == UNION {ToSet(r.permissions) : r \in {x \in roles : x.id = roleId}}

Answered(op) == resp' # resp /\ resp'.op = op

\* C6: getUserPermissions returns exactly the union of the permission sets of
\* the roles held through assignments with expires-at null or later than now;
\* with no such assignment it returns the empty list.
C6_EffectivePermissionsAreUnionOfLiveRoles ==
    [][ Answered("getUserPermissions") =>
          /\ ToSet(resp'.result) =
                UNION {PermissionsOfRole(userRoles[i].roleId) : i \in LiveRows(resp'.userId, now)}
          /\ (LiveRows(resp'.userId, now) = {} => resp'.result = <<>>) ]_vars

C6_Witness ==
    /\ resp.op = "getUserPermissions"
    /\ LiveRows(resp.userId, now) # {}
    /\ DeadRows(resp.userId, now) # {}
    /\ "users:read" \in ToSet(resp.result)
    /\ "projects:write" \notin ToSet(resp.result)

\* C7: an assignment whose expires-at has passed counts as absent in hasRole,
\* hasPermission and getUserPermissions, and no query changes the ledger.
C7_ExpiredAssignmentsAreAbsentButKept ==
    [][ (resp' # resp) =>
          /\ userRoles' = userRoles
          /\ resp'.op = "hasRole" =>
                (resp'.result <=>
                    \E i \in LiveRows(resp'.userId, now) :
                        \E r \in roles : r.id = userRoles[i].roleId /\ r.name = resp'.arg)
          /\ resp'.op = "hasPermission" =>
                (resp'.result <=>
                    \E i \in LiveRows(resp'.userId, now) :
                        resp'.arg \in PermissionsOfRole(userRoles[i].roleId))
          /\ resp'.op = "getUserPermissions" =>
                \A perm \in ToSet(resp'.result) :
                    \E i \in LiveRows(resp'.userId, now) :
                        perm \in PermissionsOfRole(userRoles[i].roleId) ]_vars

C7_Witness ==
    /\ resp.op = "hasRole"
    /\ resp.result = FALSE
    /\ \E i \in DeadRows(resp.userId, now) :
            \E r \in roles : r.id = userRoles[i].roleId /\ r.name = resp.arg

(***************************************************************************)
(* Team membership: middleware, routes and the team-scoped permission      *)
(***************************************************************************)
roleHierarchy == <<"VIEWER", "MEMBER", "LEAD", "OWNER">>

indexOf(arr, x) == IF Includes(arr, x) THEN CHOOSE i \in 1..Len(arr) : arr[i] = x ELSE 0

\* req.user.roles.includes('admin'): the role names the token was issued with
TokenRoles(userId) ==
    {RoleById(userRoles[i].roleId).name : i \in {j \in 1..Len(userRoles) : userRoles[j].userId = userId}}

\* requireTeamMembership(minRole): the error passed to next(), NoError to go on
requireTeamMembership(minRole, requester, teamId) ==
    IF "admin" \in TokenRoles(requester) THEN NoError
    ELSE IF teamMembers[<<teamId, requester>>] = NoRow
         THEN AuthorizationError("Not a member of this team")
    ELSE IF indexOf(roleHierarchy, teamMembers[<<teamId, requester>>].role)
                < indexOf(roleHierarchy, minRole)
         THEN AuthorizationError("Requires role or higher in team")
    ELSE NoError

\* what no team route touches (their logAction calls go through Log_create
\* and the detection steps below; no team route reads the audit log)
Frame_team ==
    /\ UNCHANGED <<now, roles, userRoles, uniqueIdx, roleFk, users, memoryStore, auditLogs, incidents>>
    /\ resp' = NoResp

\* POST /teams/:teamId/members: authenticate, requireTeamMembership('LEAD')
AddMember_auth(p, requester, teamId, userId, role) ==
    /\ Free(p)
    /\ LET err == requireTeamMembership("LEAD", requester, teamId)
       IN  proc' = [proc EXCEPT ![p] =
                IF err # NoError THEN Done("addMember", err)
                ELSE [op |-> "addMember", pc |-> "findExisting", thrown |-> NoError, status |-> 0,
                      teamId |-> teamId, userId |-> userId, role |-> role]]
    /\ UNCHANGED teamMembers
    /\ Frame_team

\* prisma.user.findUnique (every user of Users exists) and
\* const existing = await prisma.teamMember.findUnique(...)
AddMember_findExisting(p) ==
    /\ proc[p].op = "addMember" /\ proc[p].pc = "findExisting"
    /\ proc' = [proc EXCEPT ![p] =
            IF teamMembers[<<proc[p].teamId, proc[p].userId>>] # NoRow
            THEN Replied("addMember", 409)
            ELSE [proc[p] EXCEPT !.pc = "create"]]
    /\ UNCHANGED teamMembers
    /\ Frame_team

\* await prisma.teamMember.create({ data: { teamId, userId, role } })
AddMember_create(p) ==
    /\ proc[p].op = "addMember" /\ proc[p].pc = "create"
    /\ IF teamMembers[<<proc[p].teamId, proc[p].userId>>] # NoRow
       THEN /\ proc' = [proc EXCEPT ![p] = Done("addMember", PrismaError("P2002"))]
            /\ UNCHANGED teamMembers
       ELSE /\ teamMembers' = [teamMembers EXCEPT ![<<proc[p].teamId, proc[p].userId>>] =
                    [role |-> proc[p].role, leftAt |-> NullDate]]
            /\ proc' = [proc EXCEPT ![p] = Replied("addMember", 201)]
    /\ Frame_team

\* PUT /teams/:teamId/members/:userId: authenticate, requireTeamMembership('OWNER')
UpdateMember_auth(p, requester, teamId, userId, role) ==
    /\ Free(p)
    /\ LET err == requireTeamMembership("OWNER", requester, teamId)
       IN  proc' = [proc EXCEPT ![p] =
                IF err # NoError THEN Done("updateMember", err)
                ELSE [op |-> "updateMember", pc |-> "update", thrown |-> NoError, status |-> 0,
                      teamId |-> teamId, userId |-> userId, role |-> role]]
    /\ UNCHANGED teamMembers
    /\ Frame_team

\* await prisma.teamMember.update({ where: { teamId_userId }, data: { role } })
UpdateMember_update(p) ==
    /\ proc[p].op = "updateMember" /\ proc[p].pc = "update"
    /\ IF teamMembers[<<proc[p].teamId, proc[p].userId>>] = NoRow
       THEN /\ proc' = [proc EXCEPT ![p] = Done("updateMember", PrismaError("P2025"))]
            /\ UNCHANGED teamMembers
       ELSE /\ teamMembers' = [teamMembers EXCEPT ![<<proc[p].teamId, proc[p].userId>>].role =
                    proc[p].role]
            /\ proc' = [proc EXCEPT ![p] = Replied("updateMember", 200)]
    /\ Frame_team

\* DELETE /teams/:teamId/members/:userId: authenticate, requireTeamMembership('LEAD')
RemoveMember_auth(p, requester, teamId, userId) ==
    /\ Free(p)
    /\ LET err == requireTeamMembership("LEAD", requester, teamId)
       IN  proc' = [proc EXCEPT ![p] =
                IF err # NoError THEN Done("removeMember", err)
                ELSE [op |-> "removeMember", pc |-> "count", thrown |-> NoError, status |-> 0,
                      teamId |-> teamId, userId |-> userId, owners |-> 0]]
    /\ UNCHANGED teamMembers
    /\ Frame_team

\* const owners = await prisma.teamMember.count({ where: { teamId, role: 'OWNER' } })
RemoveMember_count(p) ==
    /\ proc[p].op = "removeMember" /\ proc[p].pc = "count"
    /\ proc' = [proc EXCEPT ![p] = [proc[p] EXCEPT
            !.pc = "find",
            !.owners = Cardinality({u \in Users :
                            teamMembers[<<proc[p].teamId, u>>].role = "OWNER"})]]
    /\ UNCHANGED teamMembers
    /\ Frame_team

\* const member = await prisma.teamMember.findUnique(...);
\* if (member?.role === 'OWNER' && owners <= 1) return res.status(400)...
RemoveMember_find(p) ==
    /\ proc[p].op = "removeMember" /\ proc[p].pc = "find"
    /\ proc' = [proc EXCEPT ![p] =
            IF teamMembers[<<proc[p].teamId, proc[p].userId>>].role = "OWNER" /\ proc[p].owners <= 1
            THEN Replied("removeMember", 400)
            ELSE [proc[p] EXCEPT !.pc = "update"]]
    /\ UNCHANGED teamMembers
    /\ Frame_team

\* await prisma.teamMember.update({ where: { teamId_userId }, data: { leftAt: new Date() } })
RemoveMember_update(p) ==
    /\ proc[p].op = "removeMember" /\ proc[p].pc = "update"
    /\ IF teamMembers[<<proc[p].teamId, proc[p].userId>>] = NoRow
       THEN /\ proc' = [proc EXCEPT ![p] = Done("removeMember", PrismaError("P2025"))]
            /\ UNCHANGED teamMembers
       ELSE /\ teamMembers' = [teamMembers EXCEPT ![<<proc[p].teamId, proc[p].userId>>].leftAt = now]
            /\ proc' = [proc EXCEPT ![p] = Replied("removeMember", 200)]
    /\ Frame_team

\* a LEAD with the implied permissions of a MEMBER
teamPermissions_leadAsMember ==
    [ OWNER  |-> <<"teams:write", "teams:manage_members", "projects:manage", "documents:write">>,
      LEAD   |-> <<"projects:read", "documents:read", "documents:write">>,
      MEMBER |-> <<"projects:read", "documents:read", "documents:write">>,
      VIEWER |-> <<"projects:read", "documents:read">> ]

teamPermissions ==
    [ OWNER  |-> <<"teams:write", "teams:manage_members", "projects:manage", "documents:write">>,
      LEAD   |-> <<"teams:manage_members", "projects:write", "documents:write">>,
      MEMBER |-> <<"projects:read", "documents:read", "documents:write">>,
      VIEWER |-> <<"projects:read", "documents:read">> ]

\* hasTeamPermission, first await: if (await this.hasPermission(userId, permission)) return true
HasTeamPermission_global(p, userId, teamId, permission) ==
    /\ Free(p)
    /\ IF hasPermission(userId, permission, now)
       THEN /\ resp' = [op |-> "hasTeamPermission", userId |-> userId, teamId |-> teamId,
                        arg |-> permission, result |-> TRUE]
            /\ proc' = [proc EXCEPT ![p] = Done("hasTeamPermission", NoError)]
       ELSE /\ resp' = NoResp
            /\ proc' = [proc EXCEPT ![p] =
                    [op |-> "hasTeamPermission", pc |-> "findMembership", thrown |-> NoError,
                     status |-> 0, userId |-> userId, teamId |-> teamId, permission |-> permission]]
    /\ UNCHANGED <<now, roles, userRoles, uniqueIdx, roleFk, users, memoryStore, teamMembers, auditLogs, incidents>>

\* hasTeamPermission, second await: prisma.teamMember.findUnique and the table
HasTeamPermission_membership(p) ==
    /\ proc[p].op = "hasTeamPermission" /\ proc[p].pc = "findMembership"
    /\ LET membership == teamMembers[<<proc[p].teamId, proc[p].userId>>]
       IN  resp' = [op |-> "hasTeamPermission", userId |-> proc[p].userId,
                    teamId |-> proc[p].teamId, arg |-> proc[p].permission,
                    result |-> IF membership = NoRow THEN FALSE
                               ELSE Includes(teamPermissions[membership.role], proc[p].permission)]
    /\ proc' = [proc EXCEPT ![p] = Done("hasTeamPermission", NoError)]
    /\ UNCHANGED <<now, roles, userRoles, uniqueIdx, roleFk, users, memoryStore, teamMembers, auditLogs, incidents>>

TeamRoles == {"VIEWER", "MEMBER", "LEAD", "OWNER"}
AddableRoles == {"MEMBER", "LEAD", "VIEWER"}
TeamQueryPerms == {"teams:manage_members", "teams:write", "documents:read"}

\* a ledger row granted without expiry
Grant(userId, roleId) ==
    [userId |-> userId, roleId |-> roleId, grantedBy |-> Grantor, expiresAt |-> NullDate]

\* Both teams have been created by u2 (POST /teams makes the creator OWNER);
\* u1 holds no global role, member or team_lead.
InitTeam ==
    /\ now = 0
    /\ roles = initializeRoles
    /\ userRoles \in {<<>>, <<Grant("u1", "r_member")>>, <<Grant("u1", "r_team_lead")>>}
    /\ uniqueIdx = TRUE   \* read by assignRole only
    /\ roleFk = "restrict"   \* read when a role is deleted only
    /\ users = NoFailures
    /\ memoryStore = {}
    /\ teamMembers = [k \in Teams \X Users |->
            IF k[2] = "u2" THEN [role |-> "OWNER", leftAt |-> NullDate] ELSE NoRow]
    /\ auditLogs = <<>>
    /\ incidents = <<>>
    /\ proc = [p \in Procs |-> Idle]
    /\ resp = NoResp

\* the team whose membership the requests manage; t2 keeps its creator only
ManagedTeams == {"t1"}

\* requests made one after the other: handler slot 1 only
NextTeam ==
    \/ \E requester \in Users, teamId \in ManagedTeams, userId \in Users, role \in AddableRoles :
            AddMember_auth(1, requester, teamId, userId, role)
    \/ AddMember_findExisting(1)
    \/ AddMember_create(1)
    \/ \E requester \in Users, teamId \in ManagedTeams, userId \in Users, role \in TeamRoles :
            UpdateMember_auth(1, requester, teamId, userId, role)
    \/ UpdateMember_update(1)
    \/ \E requester \in Users, teamId \in ManagedTeams, userId \in Users :
            RemoveMember_auth(1, requester, teamId, userId)
    \/ RemoveMember_count(1)
    \/ RemoveMember_find(1)
    \/ RemoveMember_update(1)
    \/ \E userId \in Users, teamId \in Teams, permission \in TeamQueryPerms :
            HasTeamPermission_global(1, userId, teamId, permission)
    \/ HasTeamPermission_membership(1)

SpecTeam == InitTeam /\ [][NextTeam]_vars

(***************************************************************************)
(* Properties of team membership                                           *)
(***************************************************************************)
\* the members of teamId whose membership is active (left-at null) with role OWNER
ActiveOwners(teamId) ==
    {u \in Users : /\ teamMembers[<<teamId, u>>].role = "OWNER"
                   /\ teamMembers[<<teamId, u>>].leftAt = NullDate}

SoleActiveOwner(teamId, userId) == ActiveOwners(teamId) = {userId}

\* the step in which the remove-member request of p is answered
RemoveCompletes(p) ==
    /\ proc[p].op = "removeMember"
    /\ proc[p].pc \in {"find", "update"}
    /\ proc'[p].pc = "done"

\* C4: a remove-member request whose target is the only active OWNER of the
\* team is rejected and leaves the memberships unchanged, so no removal takes
\* the last active OWNER from a team.
C4_SoleOwnerIsNeverRemoved ==
    [][ \A p \in Procs :
          (RemoveCompletes(p) /\ SoleActiveOwner(proc[p].teamId, proc[p].userId))
              => /\ teamMembers' = teamMembers
                 /\ proc'[p].status = 400 ]_vars

\* C5: an update-member request that moves the only active OWNER of the team
\* to LEAD, MEMBER or VIEWER is rejected with ConflictError and the role stays
\* OWNER.
C5_SoleOwnerIsNeverDemoted ==
    [][ \A p \in Procs :
          ( /\ proc[p].op = "updateMember" /\ proc[p].pc = "update"
            /\ proc'[p].pc = "done"
            /\ proc[p].role # "OWNER"
            /\ SoleActiveOwner(proc[p].teamId, proc[p].userId) )
              => /\ proc'[p].thrown.name = "ConflictError"
                 /\ teamMembers'[<<proc[p].teamId, proc[p].userId>>].role = "OWNER" ]_vars

\* the table of permissions a team role implies
ImpliedByTeamRole(role) ==
    CASE role = "OWNER"  -> {"teams:write", "teams:manage_members", "projects:manage", "documents:write"}
      [] role = "LEAD"   -> {"teams:manage_members", "projects:write", "documents:write"}
      [] role = "MEMBER" -> {"projects:read", "documents:read", "documents:write"}
      [] role = "VIEWER" -> {"projects:read", "documents:read"}
      [] OTHER           -> {}

\* userId holds permission globally: through a live assignment of a role that has it
GloballyPermitted(userId, permission) ==
    \E i \in LiveRows(userId, now) : permission \in PermissionsOfRole(userRoles[i].roleId)

\* u1 has the global role member only and is LEAD in t1, with no membership in t2
ExampleU1 ==
    /\ {userRoles[i].roleId : i \in LiveRows("u1", now)} = {"r_member"}
    /\ teamMembers[<<"t1", "u1">>].role = "LEAD"
    /\ teamMembers[<<"t2", "u1">>] = NoRow

\* C9: hasTeamPermission answers true exactly when the actor holds the
\* permission globally or has a membership in the team whose role implies it;
\* for u1 (member, LEAD in t1 only) teams:write is denied globally,
\* teams:manage_members is granted in t1 and denied in t2.
C9_TeamPermissionIsGlobalOrImplied ==
    [][ /\ Answered("hasTeamPermission") =>
              (resp'.result <=>
                  \/ GloballyPermitted(resp'.userId, resp'.arg)
                  \/ resp'.arg \in ImpliedByTeamRole(teamMembers[<<resp'.teamId, resp'.userId>>].role))
        /\ (Answered("hasTeamPermission") /\ ExampleU1 /\ resp'.userId = "u1"
                /\ resp'.arg = "teams:manage_members")
              => (resp'.result <=> resp'.teamId = "t1")
        /\ ExampleU1 => ~hasPermission("u1", "teams:write", now) ]_vars

C9_Witness ==
    /\ ExampleU1
    /\ resp.op = "hasTeamPermission"
    /\ resp.userId = "u1" /\ resp.teamId = "t1" /\ resp.arg = "teams:manage_members"
    /\ resp.result = TRUE
    /\ ~hasPermission("u1", "teams:manage_members", now)

\* C10: an actor without the permission globally whose membership in the team
\* has been removed (left-at set) is denied every team-scoped permission.
C10_RemovedMemberHasNoTeamPermission ==
    [][ ( /\ Answered("hasTeamPermission")
          /\ ~GloballyPermitted(resp'.userId, resp'.arg)
          /\ teamMembers[<<resp'.teamId, resp'.userId>>].leftAt # NullDate )
            => resp'.result = FALSE ]_vars

(***************************************************************************)
(* Audit service: log, anomaly detection and security incidents            *)
(***************************************************************************)
FAILED_LOGIN_WINDOW == 15
FAILED_LOGIN_THRESHOLD == 5
SENSITIVE_ACCESS_WINDOW == 60
SENSITIVE_ACCESS_THRESHOLD == 50
MULTI_IP_WINDOW == 30
MULTI_IP_THRESHOLD == 5
CORRELATION_WINDOW == 60

\* the clock step and horizon, and the size of the audit log
TickMinutes == 15
MaxAuditNow == 30
MaxLog == 6

\* the status column of a new incident, which create() does not set
DefaultIncidentStatus == "OPEN"

\* prisma.auditLog.count({ where: { userId, createdAt: { gte: now - window } } })
CountLogs_anyAction(userId, action, window, t) ==
    Cardinality({i \in 1..Len(auditLogs) :
        /\ auditLogs[i].userId = userId
        /\ auditLogs[i].createdAt >= t - window})

\* prisma.auditLog.count({ where: { userId, action, createdAt: { gte: now - window } } })
CountLogs(userId, action, window, t) ==
    Cardinality({i \in 1..Len(auditLogs) :
        /\ auditLogs[i].userId = userId
        /\ auditLogs[i].action = action
        /\ auditLogs[i].createdAt >= t - window})

\* prisma.auditLog.findMany({ where: { createdAt: { gte } }, distinct: ['ipAddress'] })
RecentIPs_anyUser(userId, window, t) ==
    {auditLogs[i].ipAddress : i \in {j \in 1..Len(auditLogs) :
        auditLogs[j].createdAt >= t - window}}

\* prisma.auditLog.findMany({ where: { userId, createdAt: { gte } }, distinct: ['ipAddress'] })
RecentIPs(userId, window, t) ==
    {auditLogs[i].ipAddress : i \in {j \in 1..Len(auditLogs) :
        auditLogs[j].userId = userId /\ auditLogs[j].createdAt >= t - window}}

\* the rows securityIncident.findFirst may return for the candidate
MatchingIncidents(candidate, t) ==
    {i \in 1..Len(incidents) :
        /\ incidents[i].type = candidate.type
        /\ incidents[i].affectedUsers \cap candidate.affectedUsers # {}
        /\ incidents[i].status \in {"OPEN", "INVESTIGATING"}
        /\ incidents[i].detectedAt >= t - CORRELATION_WINDOW}

NoCandidate == [type |-> Null, severity |-> Null, title |-> Null, description |-> <<>>,
                affectedUsers |-> {}]

Frame_audit ==
    /\ UNCHANGED <<roles, userRoles, uniqueIdx, roleFk, users, memoryStore, teamMembers>>
    /\ resp' = NoResp

\* where _detectSuspiciousActivity waits next, having passed the rules before
\* rule: its first pending database call, or "return" when no rule is left
AwaitFrom(rule, userId, action) ==
    IF rule <= 1 /\ action = "LOGIN_FAILED" /\ userId # Null THEN "countFailures"
    ELSE IF rule <= 2 /\ action = "SENSITIVE_DATA_ACCESSED" /\ userId # Null THEN "countAccess"
    ELSE IF rule <= 3 /\ userId # Null THEN "findIPs"
    ELSE "return"

\* who awaits the log call: op "log" when log is called on its own, else the
\* operation that awaits it; responded: the response of the request has been
\* sent; resourceId: the team or incident the operation is about
Caller(op, responded, resourceId) ==
    [op |-> op, responded |-> responded, resourceId |-> resourceId]

NoCaller == Caller("log", FALSE, Null)

\* the handler record of a call log({ userId, action, resourceId, ipAddress })
\* whose prisma.auditLog.create is pending
LogCall(caller, userId, action, resourceId, ipAddress) ==
    [op |-> "log", pc |-> "create", thrown |-> NoError, status |-> 0,
     userId |-> userId, action |-> action, resourceId |-> resourceId,
     ipAddress |-> ipAddress, candidate |-> NoCandidate, rule |-> 0, existing |-> 0,
     existingDescription |-> <<>>, caller |-> caller]

\* the row prisma.auditLog.create inserts for the call h
AuditRow(h, t) ==
    [userId |-> h.userId, action |-> h.action, resourceId |-> h.resourceId,
     ipAddress |-> h.ipAddress, createdAt |-> t]

\* log has returned to the operation awaiting it, which runs to its next
\* database call: POST /teams answers 201, and the res.end of auditMiddleware
\* then schedules its own log call with setImmediate; resolveIncident returns
\* the incident
Return(h) ==
    IF h.caller.op = "createTeam"
    THEN LogCall(Caller("auditMiddleware", TRUE, h.caller.resourceId),
                 h.userId, "TEAM_CREATE", Null, h.ipAddress)
    ELSE IF h.caller.op = "auditMiddleware" THEN Replied("createTeam", 201)
    ELSE Done(h.caller.op, NoError)

\* the rejection the catch block keeps: } catch (error) { throw error }
LogCatch_rethrow(error) == error

\* } catch (error) { logger.error(...) }  (no throw: log resolves with undefined)
LogCatch(error) == NoError

\* the promise of log has settled with err: the operation awaiting it goes on,
\* or its await throws; auditMiddleware ends with .catch(() => {})
Settle(h, err) ==
    IF err = NoError \/ h.caller.op = "auditMiddleware" THEN Return(h)
    ELSE Done(h.caller.op, err)

\* the handler record h moved to its next database call, or finished
ProceedFrom(h, rule) ==
    LET next == AwaitFrom(rule, h.userId, h.action)
    IN  IF next = "return" THEN Settle(h, NoError)
        ELSE [h EXCEPT !.pc = next, !.candidate = NoCandidate, !.existing = 0,
                       !.existingDescription = <<>>]

Proceed(p, rule) == ProceedFrom(proc[p], rule)

\* log called on its own:
\* const auditLog = await prisma.auditLog.create({ data: { userId, action, ..., ipAddress } })
Log_create(p, userId, action, ipAddress) ==
    /\ Free(p)
    /\ LET h == LogCall(NoCaller, userId, action, Null, ipAddress)
       IN  /\ auditLogs' = Append(auditLogs, AuditRow(h, now))
           /\ proc' = [proc EXCEPT ![p] = ProceedFrom(h, 1)]
    /\ UNCHANGED <<now, incidents>>
    /\ Frame_audit

\* log awaited by another operation: the same prisma.auditLog.create
Log_persist(p) ==
    /\ proc[p].op = "log" /\ proc[p].pc = "create"
    /\ auditLogs' = Append(auditLogs, AuditRow(proc[p], now))
    /\ proc' = [proc EXCEPT ![p] = Proceed(p, 1)]
    /\ UNCHANGED <<now, incidents>>
    /\ Frame_audit

\* a rejected database call of a log call in flight
StorageError == PrismaError("P1001")

\* log called on its own, prisma.auditLog.create rejects: the catch block
Log_createFails(p, userId, action, ipAddress) ==
    /\ Free(p)
    /\ proc' = [proc EXCEPT ![p] =
            Settle(LogCall(NoCaller, userId, action, Null, ipAddress), LogCatch(StorageError))]
    /\ UNCHANGED <<now, auditLogs, incidents>>
    /\ Frame_audit

\* the pending database call of log rejects (auditLog.create, count or
\* findMany of the detection, securityIncident.findFirst, update or create):
\* the catch block
Log_fails(p) ==
    /\ proc[p].op = "log" /\ proc[p].pc # "done"
    /\ proc' = [proc EXCEPT ![p] = Settle(proc[p], LogCatch(StorageError))]
    /\ UNCHANGED <<now, auditLogs, incidents>>
    /\ Frame_audit

\* rule 1: const recentFailures = await prisma.auditLog.count(...); if (recentFailures >= 5) ...
Detect_countFailures(p) ==
    /\ proc[p].op = "log" /\ proc[p].pc = "countFailures"
    /\ LET recentFailures == CountLogs(proc[p].userId, "LOGIN_FAILED", FAILED_LOGIN_WINDOW, now)
       IN  proc' = [proc EXCEPT ![p] =
                IF recentFailures >= FAILED_LOGIN_THRESHOLD
                THEN [proc[p] EXCEPT
                        !.pc = "findIncident", !.rule = 1,
                        !.candidate =
                            [type |-> "BRUTE_FORCE", severity |-> "HIGH",
                             title |-> "Multiple failed login attempts detected",
                             description |-> <<[userId |-> proc[p].userId,
                                                count |-> recentFailures,
                                                ip |-> proc[p].ipAddress]>>,
                             affectedUsers |-> {proc[p].userId}]]
                ELSE Proceed(p, 2)]
    /\ UNCHANGED <<now, auditLogs, incidents>>
    /\ Frame_audit

\* rule 2: const recentAccess = await prisma.auditLog.count(...); if (recentAccess >= 50) ...
Detect_countAccess(p) ==
    /\ proc[p].op = "log" /\ proc[p].pc = "countAccess"
    /\ LET recentAccess ==
               CountLogs(proc[p].userId, "SENSITIVE_DATA_ACCESSED", SENSITIVE_ACCESS_WINDOW, now)
       IN  proc' = [proc EXCEPT ![p] =
                IF recentAccess >= SENSITIVE_ACCESS_THRESHOLD
                THEN [proc[p] EXCEPT
                        !.pc = "findIncident", !.rule = 2,
                        !.candidate =
                            [type |-> "SUSPICIOUS_ACTIVITY", severity |-> "MEDIUM",
                             title |-> "Unusual data access pattern detected",
                             description |-> <<[userId |-> proc[p].userId,
                                                count |-> recentAccess,
                                                ip |-> Null]>>,
                             affectedUsers |-> {proc[p].userId}]]
                ELSE Proceed(p, 3)]
    /\ UNCHANGED <<now, auditLogs, incidents>>
    /\ Frame_audit

\* rule 3: const recentIPs = await prisma.auditLog.findMany(...); if (recentIPs.length >= 5) ...
Detect_findIPs(p) ==
    /\ proc[p].op = "log" /\ proc[p].pc = "findIPs"
    /\ LET recentIPs == RecentIPs(proc[p].userId, MULTI_IP_WINDOW, now)
       IN  proc' = [proc EXCEPT ![p] =
                IF Cardinality(recentIPs) >= MULTI_IP_THRESHOLD
                THEN [proc[p] EXCEPT
                        !.pc = "findIncident", !.rule = 3,
                        !.candidate =
                            [type |-> "SUSPICIOUS_ACTIVITY", severity |-> "MEDIUM",
                             title |-> "Multiple IP addresses detected",
                             description |-> <<[userId |-> proc[p].userId,
                                                count |-> Cardinality(recentIPs),
                                                ip |-> Null]>>,
                             affectedUsers |-> {proc[p].userId}]]
                ELSE Proceed(p, 4)]
    /\ UNCHANGED <<now, auditLogs, incidents>>
    /\ Frame_audit

\* _createSecurityIncident: const existing = await prisma.securityIncident.findFirst(...)
\* (no orderBy: any matching row may be the one returned)
Incident_findFirst(p) ==
    /\ proc[p].op = "log" /\ proc[p].pc = "findIncident"
    /\ LET matching == MatchingIncidents(proc[p].candidate, now)
       IN  IF matching = {}
           THEN proc' = [proc EXCEPT ![p] = [proc[p] EXCEPT !.pc = "writeIncident", !.existing = 0]]
           ELSE \E i \in matching :
                    proc' = [proc EXCEPT ![p] = [proc[p] EXCEPT
                        !.pc = "writeIncident", !.existing = i,
                        !.existingDescription = incidents[i].description]]
    /\ UNCHANGED <<now, auditLogs, incidents>>
    /\ Frame_audit

\* the uuid a new incident row is given, in the order of creation
IncidentIds == <<"i1", "i2", "i3", "i4", "i5", "i6">>

\* _createSecurityIncident: if (existing) update description else create
Incident_write(p) ==
    /\ proc[p].op = "log" /\ proc[p].pc = "writeIncident"
    /\ IF proc[p].existing # 0
       THEN incidents' = [incidents EXCEPT ![proc[p].existing].description =
                proc[p].existingDescription \o proc[p].candidate.description]
       ELSE incidents' = Append(incidents,
                [id |-> IncidentIds[Len(incidents) + 1],
                 type |-> proc[p].candidate.type, severity |-> proc[p].candidate.severity,
                 title |-> proc[p].candidate.title,
                 description |-> proc[p].candidate.description,
                 affectedUsers |-> proc[p].candidate.affectedUsers,
                 status |-> DefaultIncidentStatus, detectedAt |-> now,
                 resolution |-> Null, resolvedBy |-> Null, resolvedAt |-> NullDate])
    /\ proc' = [proc EXCEPT ![p] = Proceed(p, proc[p].rule + 1)]
    /\ UNCHANGED <<now, auditLogs>>
    /\ Frame_audit

\* The clock steps by a quarter of an hour; the database calls of a handler
\* take far less, so the clock steps between handlers.
TickAudit ==
    /\ \A p \in Procs : Free(p)
    /\ now + TickMinutes <= MaxAuditNow
    /\ now' = now + TickMinutes
    /\ resp' = NoResp
    /\ UNCHANGED <<roles, userRoles, uniqueIdx, roleFk, users, memoryStore, teamMembers, auditLogs, incidents, proc>>

\* the events recorded: <<userId, action, ipAddress>>
AuditEvents ==
    { <<"u1", "LOGIN_FAILED", "ip1">>, <<"u1", "LOGIN", "ip1">>, <<"u2", "LOGIN_FAILED", "ip1">> }

InitAudit ==
    /\ now = 0
    /\ roles = initializeRoles
    /\ userRoles = <<>>
    /\ uniqueIdx = TRUE   \* read by assignRole only
    /\ roleFk = "restrict"   \* read when a role is deleted only
    /\ users = NoFailures
    /\ memoryStore = {}
    /\ teamMembers = EmptyTeamMembers
    /\ auditLogs = <<>>
    /\ incidents = <<>>
    /\ proc = [p \in Procs |-> Idle]
    /\ resp = NoResp

NextAudit ==
    \/ \E p \in Procs, event \in AuditEvents :
            Len(auditLogs) < MaxLog /\ Log_create(p, event[1], event[2], event[3])
    \/ \E p \in Procs : Detect_countFailures(p)
    \/ \E p \in Procs : Detect_findIPs(p)
    \/ \E p \in Procs : Incident_findFirst(p)
    \/ \E p \in Procs : Incident_write(p)
    \/ TickAudit

SpecAudit == InitAudit /\ [][NextAudit]_vars

\* the same events recorded one after the other: handler slot 1 only
NextAuditSeq ==
    \/ \E event \in AuditEvents :
            Len(auditLogs) < MaxLog /\ Log_create(1, event[1], event[2], event[3])
    \/ Detect_countFailures(1)
    \/ Detect_findIPs(1)
    \/ Incident_findFirst(1)
    \/ Incident_write(1)
    \/ TickAudit

SpecAuditSeq == InitAudit /\ [][NextAuditSeq]_vars

(***************************************************************************)
(* Properties of anomaly detection and incidents                           *)
(***************************************************************************)
OpenStatuses == {"OPEN", "INVESTIGATING"}

\* C2: there is at most one OPEN or INVESTIGATING incident per type and
\* affected actor detected within the one-hour correlation window: two
\* detections of one type for one actor, however close, yield one incident.
C2_OneOpenIncidentPerTypeAndActor ==
    \A i, j \in 1..Len(incidents) :
        ( /\ i < j
          /\ incidents[i].type = incidents[j].type
          /\ incidents[i].affectedUsers \cap incidents[j].affectedUsers # {}
          /\ incidents[i].status \in OpenStatuses
          /\ incidents[j].status \in OpenStatuses )
            => incidents[j].detectedAt - incidents[i].detectedAt > CORRELATION_WINDOW

Quiescent == \A p \in Procs : Free(p)

FailedLogins(userId) ==
    {i \in 1..Len(auditLogs) : auditLogs[i].userId = userId /\ auditLogs[i].action = "LOGIN_FAILED"}

\* every failed login of userId lies within one stretch of 15 minutes
FailedLoginsInOneWindow(userId) ==
    \A i, j \in FailedLogins(userId) :
        auditLogs[j].createdAt - auditLogs[i].createdAt <= FAILED_LOGIN_WINDOW

BruteForceIncidents(userId) ==
    {i \in 1..Len(incidents) :
        incidents[i].type = "BRUTE_FORCE" /\ userId \in incidents[i].affectedUsers}

\* C3: fewer than 5 LOGIN_FAILED events of an actor leave no BRUTE_FORCE
\* incident; once 5 or more have been recorded within 15 minutes there is
\* exactly one BRUTE_FORCE incident for the actor, HIGH and OPEN (the 6th
\* event merges into it).
C3_FiveFailedLoginsRaiseOneIncident ==
    \A userId \in Users :
        /\ Cardinality(FailedLogins(userId)) < FAILED_LOGIN_THRESHOLD
              => BruteForceIncidents(userId) = {}
        /\ ( /\ Quiescent
             /\ FailedLoginsInOneWindow(userId)
             /\ Cardinality(FailedLogins(userId)) >= FAILED_LOGIN_THRESHOLD )
              => /\ Cardinality(BruteForceIncidents(userId)) = 1
                 /\ \A i \in BruteForceIncidents(userId) :
                        incidents[i].severity = "HIGH" /\ incidents[i].status = "OPEN"

(***************************************************************************)
(* Incident resolution, and the audit pipeline around a detected incident  *)
(***************************************************************************)
IncidentExists(incidentId) == \E i \in 1..Len(incidents) : incidents[i].id = incidentId

IncidentIndex(incidentId) == CHOOSE i \in 1..Len(incidents) : incidents[i].id = incidentId

\* the update that leaves out who resolved the incident, and when
Resolved_statusOnly(row, resolution, resolvedBy, t) ==
    [row EXCEPT !.status = "RESOLVED", !.resolution = resolution]

\* data: { status: 'RESOLVED', resolution, resolvedBy, resolvedAt: new Date() }
Resolved(row, resolution, resolvedBy, t) ==
    [row EXCEPT !.status = "RESOLVED", !.resolution = resolution,
                !.resolvedBy = resolvedBy, !.resolvedAt = t]

\* resolveIncident: const incident = await prisma.securityIncident.update({ where: { id }, ... })
\* and the call of this.log({ userId: resolvedBy, action, resourceId: incidentId }) after it
ResolveIncident_update(p, incidentId, resolution, resolvedBy) ==
    /\ Free(p)
    /\ IF IncidentExists(incidentId)
       THEN /\ incidents' = [incidents EXCEPT ![IncidentIndex(incidentId)] =
                    Resolved(@, resolution, resolvedBy, now)]
            /\ proc' = [proc EXCEPT ![p] =
                    LogCall(Caller("resolveIncident", FALSE, incidentId), resolvedBy,
                            "SECURITY_INCIDENT_RESOLVED", incidentId, Null)]
       ELSE /\ UNCHANGED incidents
            /\ proc' = [proc EXCEPT ![p] = Done("resolveIncident", PrismaError("P2025"))]
    /\ UNCHANGED <<now, auditLogs>>
    /\ Frame_audit

\* the size of the audit log around one incident
MaxIncidentLog == 8

FailedLogin == <<"u1", "LOGIN_FAILED", "ip1">>
ResolvableIds == {"i1", "i2"}
Resolutions == {"password reset"}
Resolvers == {"u2"}

\* u1 has failed to log in four times within the minute: one below the
\* threshold, no incident yet
InitIncident ==
    /\ now = 0
    /\ roles = initializeRoles
    /\ userRoles = <<>>
    /\ uniqueIdx = TRUE   \* read by assignRole only
    /\ roleFk = "restrict"   \* read when a role is deleted only
    /\ users = NoFailures
    /\ memoryStore = {}
    /\ teamMembers = EmptyTeamMembers
    /\ auditLogs = [i \in 1..(FAILED_LOGIN_THRESHOLD - 1) |->
            AuditRow(LogCall(NoCaller, FailedLogin[1], FailedLogin[2], Null, FailedLogin[3]), 0)]
    /\ incidents = <<>>
    /\ proc = [p \in Procs |-> Idle]
    /\ resp = NoResp

\* the log has room for the entry of the call and of the calls in flight
LogRoom ==
    Len(auditLogs) + Cardinality({q \in Procs : proc[q].op = "log" /\ proc[q].pc = "create"})
        < MaxIncidentLog

NextIncident ==
    \/ \E p \in Procs :
            LogRoom /\ Log_create(p, FailedLogin[1], FailedLogin[2], FailedLogin[3])
    \/ \E p \in Procs : Detect_countFailures(p)
    \/ \E p \in Procs : Detect_findIPs(p)
    \/ \E p \in Procs : Incident_findFirst(p)
    \/ \E p \in Procs : Incident_write(p)
    \/ \E p \in Procs, incidentId \in ResolvableIds, resolution \in Resolutions,
          resolvedBy \in Resolvers :
            LogRoom /\ ResolveIncident_update(p, incidentId, resolution, resolvedBy)
    \/ \E p \in Procs : Log_persist(p)
    \/ TickAudit

SpecIncident == InitIncident /\ [][NextIncident]_vars

\* the same calls made one after the other: handler slot 1 only
NextIncidentSeq ==
    \/ LogRoom /\ Log_create(1, FailedLogin[1], FailedLogin[2], FailedLogin[3])
    \/ Detect_countFailures(1)
    \/ Detect_findIPs(1)
    \/ Incident_findFirst(1)
    \/ Incident_write(1)
    \/ \E incidentId \in ResolvableIds, resolution \in Resolutions, resolvedBy \in Resolvers :
            LogRoom /\ ResolveIncident_update(1, incidentId, resolution, resolvedBy)
    \/ Log_persist(1)
    \/ TickAudit

SpecIncidentSeq == InitIncident /\ [][NextIncidentSeq]_vars

\* the calls made one after the other, with a storage layer that may reject
\* any database call of log
NextIncidentFaulty ==
    \/ NextIncidentSeq
    \/ LogRoom /\ Log_createFails(1, FailedLogin[1], FailedLogin[2], FailedLogin[3])
    \/ Log_fails(1)

SpecIncidentFaulty == InitIncident /\ [][NextIncidentFaulty]_vars

(***************************************************************************)
(* Properties of the audit pipeline and of incidents                       *)
(***************************************************************************)
\* a log call is running in slot p
LogInFlight(p) == proc[p].op = "log" /\ proc[p].pc # "done"

\* slot p takes the step
Steps(p) == proc'[p] # proc[p]

ResolvedEntries(incidentId) ==
    {i \in 1..Len(auditLogs) :
        /\ auditLogs[i].action = "SECURITY_INCIDENT_RESOLVED"
        /\ auditLogs[i].resourceId = incidentId}

\* C11: log never raises to its caller. Whether the entry cannot be persisted
\* or the detection or the incident write after it fails, the call settles
\* without an error, and the operation awaiting it is neither aborted nor
\* undone: resolveIncident still returns normally and the incident it has
\* resolved stays resolved.
C11_LogNeverRaises ==
    [][\A p \in Procs :
        /\ (Steps(p) /\ (LogInFlight(p) \/ proc'[p].op = "log"))
              => proc'[p].thrown = NoError
        /\ (Steps(p) /\ LogInFlight(p) /\ proc[p].caller.op = "resolveIncident")
              => /\ proc'[p].pc = "done" => proc'[p] = Done("resolveIncident", NoError)
                 /\ \E i \in 1..Len(incidents') :
                        /\ incidents'[i].id = proc[p].caller.resourceId
                        /\ incidents'[i].status = "RESOLVED"
                        /\ incidents'[i].resolvedBy = proc[p].userId]_vars

\* resolveIncident has returned normally although its audit entry could not
\* be persisted: the incident is resolved and no entry tells of it
C11_Witness ==
    /\ proc[1] = Done("resolveIncident", NoError)
    /\ \E i \in 1..Len(incidents) :
            incidents[i].status = "RESOLVED" /\ ResolvedEntries(incidents[i].id) = {}

\* C13: a merge only appends. The write of a detection that has found an
\* existing incident leaves the incident with its stored description followed
\* by the candidate's, and changes nothing else, so that no description
\* merged before is lost.
C13_MergeOnlyAppends ==
    [][\A p \in Procs :
        (Steps(p) /\ LogInFlight(p) /\ proc[p].pc = "writeIncident" /\ proc[p].existing # 0)
          => incidents' = [incidents EXCEPT ![proc[p].existing].description =
                                incidents[proc[p].existing].description
                                    \o proc[p].candidate.description]]_vars

\* C14: a detection whose type and actor match an OPEN or INVESTIGATING
\* incident of the last hour adds no incident and appends its description to
\* that one; a detection that matches resolved incidents only creates a new
\* incident, which is OPEN, and leaves the others as they are.
C14_OneIncidentUntilResolved ==
    [][\A p \in Procs :
        (Steps(p) /\ LogInFlight(p) /\ proc[p].pc = "writeIncident")
          => LET matching == MatchingIncidents(proc[p].candidate, now)
             IN  IF matching # {}
                 THEN /\ Len(incidents') = Len(incidents)
                      /\ \E i \in matching :
                            incidents'[i].description =
                                incidents[i].description \o proc[p].candidate.description
                 ELSE /\ Len(incidents') = Len(incidents) + 1
                      /\ incidents'[Len(incidents')].status = "OPEN"
                      /\ SubSeq(incidents', 1, Len(incidents)) = incidents]_vars

AllowedTransitions ==
    { <<"OPEN", "INVESTIGATING">>, <<"INVESTIGATING", "RESOLVED">>, <<"OPEN", "FALSE_POSITIVE">> }

\* C15: the status of an incident changes along OPEN -> INVESTIGATING,
\* INVESTIGATING -> RESOLVED and OPEN -> FALSE_POSITIVE only; in particular
\* a RESOLVED or FALSE_POSITIVE incident keeps its status for ever.
C15_StatusFollowsStateMachine ==
    [][\A i \in 1..Len(incidents) :
        incidents'[i].status # incidents[i].status
          => <<incidents[i].status, incidents'[i].status>> \in AllowedTransitions]_vars

\* C16: resolveIncident on an existing incident makes it RESOLVED and stores
\* the resolution, the resolver and the instant; the call then adds a new
\* SECURITY_INCIDENT_RESOLVED entry for the incident and the resolver to the
\* audit log, which is there when the call returns.
C16_ResolveStampsAndIsAudited ==
    [][\A p \in Procs :
        /\ \A incidentId \in ResolvableIds, resolution \in Resolutions, resolvedBy \in Resolvers :
              (ResolveIncident_update(p, incidentId, resolution, resolvedBy)
                    /\ IncidentExists(incidentId))
                => LET row == incidents'[IncidentIndex(incidentId)]
                   IN  /\ row.status = "RESOLVED"
                       /\ row.resolution = resolution
                       /\ row.resolvedBy = resolvedBy
                       /\ row.resolvedAt = now
        /\ (Steps(p) /\ LogInFlight(p) /\ proc[p].caller.op = "resolveIncident")
              => /\ proc[p].pc = "create"
                    => /\ Len(auditLogs') = Len(auditLogs) + 1
                       /\ auditLogs'[Len(auditLogs')].action = "SECURITY_INCIDENT_RESOLVED"
                       /\ auditLogs'[Len(auditLogs')].resourceId = proc[p].caller.resourceId
                       /\ auditLogs'[Len(auditLogs')].userId = proc[p].userId
                 /\ proc'[p].pc = "done"
                    => \E i \in 1..Len(auditLogs') :
                          /\ auditLogs'[i].action = "SECURITY_INCIDENT_RESOLVED"
                          /\ auditLogs'[i].resourceId = proc[p].caller.resourceId
                          /\ auditLogs'[i].userId = proc[p].userId]_vars

\* an incident has been resolved by a call that has returned, and its entry
\* is in the audit log
C16_Witness ==
    /\ \E p \in Procs : proc[p] = Done("resolveIncident", NoError)
    /\ \E i \in 1..Len(incidents) :
            /\ incidents[i].status = "RESOLVED"
            /\ incidents[i].resolvedBy \in Resolvers
            /\ ResolvedEntries(incidents[i].id) # {}

(***************************************************************************)
(* A request that records audit events: POST /teams behind auditMiddleware *)
(***************************************************************************)
\* POST /teams, the handler behind authenticate and requirePermission:
\* const team = await prisma.team.create({ data: { ..., members: { create: OWNER } } })
\* and the call await logAction(req, TEAM_CREATED, 'Team', team.id, { name })
\* after it; teamId is the id the new team is given
CreateTeam_create(p, requester, teamId, ipAddress) ==
    /\ Free(p)
    /\ \A u \in Users : teamMembers[<<teamId, u>>] = NoRow
    /\ teamMembers' = [teamMembers EXCEPT ![<<teamId, requester>>] =
            [role |-> "OWNER", leftAt |-> NullDate]]
    /\ proc' = [proc EXCEPT ![p] =
            LogCall(Caller("createTeam", FALSE, teamId), requester, "TEAM_CREATED",
                    teamId, ipAddress)]
    /\ UNCHANGED <<now, roles, userRoles, uniqueIdx, roleFk, users, memoryStore, auditLogs, incidents>>
    /\ resp' = NoResp

ClientIPs == {"ip1", "ip2"}

InitRequest ==
    /\ now = 0
    /\ roles = initializeRoles
    /\ userRoles = <<>>
    /\ uniqueIdx = TRUE   \* read by assignRole only
    /\ roleFk = "restrict"   \* read when a role is deleted only
    /\ users = NoFailures
    /\ memoryStore = {}
    /\ teamMembers = EmptyTeamMembers
    /\ auditLogs = <<>>
    /\ incidents = <<>>
    /\ proc = [p \in Procs |-> Idle]
    /\ resp = NoResp

NextRequest ==
    \/ \E p \in Procs, requester \in Users, teamId \in Teams, ipAddress \in ClientIPs :
            CreateTeam_create(p, requester, teamId, ipAddress)
    \/ \E p \in Procs : Log_persist(p)
    \/ \E p \in Procs : Detect_findIPs(p)
    \/ TickAudit

SpecRequest == InitRequest /\ [][NextRequest]_vars

\* C12: audit recording is fire-and-forget relative to the response. While
\* the entry of a request is being persisted or evaluated for anomalies, be
\* it the entry of logAction or the entry of auditMiddleware, the response of
\* the request has been sent already.
C12_ResponseDoesNotWaitForAudit ==
    \A p \in Procs :
        (LogInFlight(p) /\ proc[p].caller.op \in {"createTeam", "auditMiddleware"})
            => proc[p].caller.responded

(***************************************************************************)
(* The permission gate: requirePermission and requireAllPermissions        *)
(***************************************************************************)
GateOps == {"requirePermission", "requireAllPermissions"}

\* the middleware has called next(err), or next() when err = NoError: the
\* request proceeds to its handler, or errorHandler answers it
Gate(op, err, proceeded) ==
    [op |-> op, pc |-> "done", thrown |-> err,
     status |-> IF err = NoError THEN 200 ELSE errorHandler(err), proceeded |-> proceeded]

\* the async middleware has rejected with err and nothing has handled the
\* rejection: next is not called and no response is sent
Unhandled(op, err) ==
    [op |-> op, pc |-> "unhandled", thrown |-> err, status |-> 0, proceeded |-> FALSE]

\* What becomes of the rejected promise of an async middleware that has no
\* try/catch and is not wrapped in asyncHandler is the framework's choice: it
\* passes the error to next, or it ignores the promise.
AsyncMiddlewareRejection == {"next", "unhandled"}

\* the middleware at the database check of permissions[i]
GateCheck(op, userId, permissions) ==
    [op |-> op, pc |-> "dbCheck", thrown |-> NoError, status |-> 0, proceeded |-> FALSE,
     userId |-> userId, permissions |-> permissions, i |-> 1]

\* the middleware record h of a request: req.user.userId and
\* req.user.permissions of its token, and the permissions its route requires
OfRequest(h, userId, tokenPermissions, permissions) ==
    h @@ [userId |-> userId, tokenPermissions |-> tokenPermissions,
          permissions |-> permissions]

\* requirePermission without the look at the token: always the call of
\* rbacService.hasAnyPermission
RequirePermission_ledgerOnly(p, userId, tokenPermissions, permissions) ==
    /\ Free(p)
    /\ proc' = [proc EXCEPT ![p] =
            OfRequest(GateCheck("requirePermission", userId, permissions),
                      userId, tokenPermissions, permissions)]
    /\ UNCHANGED <<now, userRoles>>
    /\ Frame_rbac

\* requirePermission(...permissions): permissions.some(perm => req.user.permissions.includes(perm)),
\* else the call of rbacService.hasAnyPermission
RequirePermission_token(p, userId, tokenPermissions, permissions) ==
    /\ Free(p)
    /\ proc' = [proc EXCEPT ![p] =
            OfRequest(IF \E i \in 1..Len(permissions) : Includes(tokenPermissions, permissions[i])
                      THEN Gate("requirePermission", NoError, TRUE)
                      ELSE GateCheck("requirePermission", userId, permissions),
                      userId, tokenPermissions, permissions)]
    /\ UNCHANGED <<now, userRoles>>
    /\ Frame_rbac

\* requireAllPermissions(...permissions): permissions.every(...), else
\* the call of rbacService.hasAllPermissions
RequireAllPermissions_token(p, userId, tokenPermissions, permissions) ==
    /\ Free(p)
    /\ proc' = [proc EXCEPT ![p] =
            OfRequest(IF \A i \in 1..Len(permissions) : Includes(tokenPermissions, permissions[i])
                      THEN Gate("requireAllPermissions", NoError, TRUE)
                      ELSE GateCheck("requireAllPermissions", userId, permissions),
                      userId, tokenPermissions, permissions)]
    /\ UNCHANGED <<now, userRoles>>
    /\ Frame_rbac

\* hasAnyPermission, one turn of the loop:
\* if (await this.hasPermission(userId, permission)) return true; at the end return false
HasAnyPermission_step(p) ==
    /\ proc[p].op = "requirePermission" /\ proc[p].pc = "dbCheck"
    /\ proc' = [proc EXCEPT ![p] =
            IF hasPermission(proc[p].userId, proc[p].permissions[proc[p].i], now)
            THEN Gate("requirePermission", NoError, TRUE)
            ELSE IF proc[p].i = Len(proc[p].permissions)
            THEN Gate("requirePermission", AuthorizationError("Missing required permission"), FALSE)
            ELSE [proc[p] EXCEPT !.i = @ + 1]]
    /\ UNCHANGED <<now, userRoles>>
    /\ Frame_rbac

\* hasAllPermissions, one turn of the loop:
\* if (!(await this.hasPermission(userId, permission))) return false; at the end return true
HasAllPermissions_step(p) ==
    /\ proc[p].op = "requireAllPermissions" /\ proc[p].pc = "dbCheck"
    /\ proc' = [proc EXCEPT ![p] =
            IF ~hasPermission(proc[p].userId, proc[p].permissions[proc[p].i], now)
            THEN Gate("requireAllPermissions", AuthorizationError("Insufficient permissions"), FALSE)
            ELSE IF proc[p].i = Len(proc[p].permissions)
            THEN Gate("requireAllPermissions", NoError, TRUE)
            ELSE [proc[p] EXCEPT !.i = @ + 1]]
    /\ UNCHANGED <<now, userRoles>>
    /\ Frame_rbac

\* prisma.userRole.findMany of hasPermission rejects: hasPermission and the
\* loop around it reject, and so does the middleware, which catches nothing
PermissionCheck_fails(p) ==
    /\ proc[p].op \in GateOps /\ proc[p].pc = "dbCheck"
    /\ \E outcome \in AsyncMiddlewareRejection :
            proc' = [proc EXCEPT ![p] =
                IF outcome = "next" THEN Gate(proc[p].op, StorageError, FALSE)
                ELSE Unhandled(proc[p].op, StorageError)]
    /\ UNCHANGED <<now, userRoles>>
    /\ Frame_rbac

\* req.user.permissions of the token, and the permissions a route requires
TokenPermissions == { <<>>, <<"teams:write">> }
RequiredPermissions ==
    { <<"teams:write">>, <<"users:read", "teams:write">>, <<"teams:write", "admin:users">> }

\* u1 holds no role, member, or team_lead until ExpiresAt
InitGate ==
    /\ now = 0
    /\ roles = initializeRoles
    /\ userRoles \in { <<>>, <<Grant("u1", "r_member")>>,
                       <<[Grant("u1", "r_team_lead") EXCEPT !.expiresAt = ExpiresAt]>> }
    /\ uniqueIdx = TRUE   \* read by assignRole only
    /\ roleFk = "restrict"   \* read when a role is deleted only
    /\ users = NoFailures
    /\ memoryStore = {}
    /\ teamMembers = EmptyTeamMembers
    /\ auditLogs = <<>>
    /\ incidents = <<>>
    /\ proc = [p \in Procs |-> Idle]
    /\ resp = NoResp

NextGate ==
    \/ \E p \in Procs, userId \in Users, tokenPermissions \in TokenPermissions,
          permissions \in RequiredPermissions :
            RequirePermission_token(p, userId, tokenPermissions, permissions)
    \/ \E p \in Procs, userId \in Users, tokenPermissions \in TokenPermissions,
          permissions \in RequiredPermissions :
            RequireAllPermissions_token(p, userId, tokenPermissions, permissions)
    \/ \E p \in Procs : HasAnyPermission_step(p)
    \/ \E p \in Procs : HasAllPermissions_step(p)
    \/ \E p \in Procs : PermissionCheck_fails(p)
    \/ Tick

SpecGate == InitGate /\ [][NextGate]_vars

\* C17: a storage error during the permission check fails closed. The check
\* does not come out true, the request does not proceed to its handler, and
\* the error is passed on: the middleware ends with next(error), which
\* errorHandler answers with 500.
C17_StorageErrorFailsClosed ==
    \A p \in Procs :
        (proc[p].op \in GateOps /\ proc[p].thrown = StorageError)
            => /\ ~proc[p].proceeded
               /\ proc[p] = Gate(proc[p].op, StorageError, FALSE)
               /\ proc[p].status = 500

(***************************************************************************)
(* Role administration: createRole, updateRole, deleteRole, initializeRoles *)
(***************************************************************************)
\* what no step of role administration touches
Frame_roles ==
    /\ UNCHANGED <<uniqueIdx, roleFk, users, memoryStore, teamMembers, auditLogs, incidents>>
    /\ resp' = NoResp

\* PERMISSIONS is an object literal: besides its own keys, PERMISSIONS[p]
\* finds what every object inherits from Object.prototype
ObjectPrototypeKeys == {"constructor", "toString", "valueOf", "hasOwnProperty", "__proto__"}

\* PERMISSIONS[p] is truthy (the description of an own key, or an inherited member)
PermissionsLookup(p) == Includes(PERMISSIONS, p) \/ p \in ObjectPrototypeKeys

\* permissions.filter(p => !PERMISSIONS[p])
invalidPerms(permissions) == SelectSeq(permissions, LAMBDA perm : ~PermissionsLookup(perm))

\* the ids new roles are given; an id is not given again while the ledger or a
\* call in flight still refers to it
CustomRoleIds == {"r_c1", "r_c2"}

FreshRoleId(id) ==
    /\ ~\E r \in roles : r.id = id
    /\ ~\E i \in 1..Len(userRoles) : userRoles[i].roleId = id
    /\ ~\E q \in Procs : proc[q].pc # "done" /\ proc[q].op \in {"assignRole", "revokeRole",
                            "updateRole", "deleteRole"} /\ proc[q].roleId = id

\* createRole(name, description, permissions, createdBy): the validation and
\* await prisma.role.create({ data: { name, description, permissions, isSystem: false } })
CreateRole_create(p, name, permissions) ==
    /\ Free(p)
    /\ \E id \in CustomRoleIds : FreshRoleId(id)
    /\ IF Len(invalidPerms(permissions)) > 0
       THEN /\ proc' = [proc EXCEPT ![p] = Done("createRole", PlainError("Invalid permissions"))]
            /\ UNCHANGED roles
       ELSE IF \E r \in roles : r.name = name
       THEN /\ proc' = [proc EXCEPT ![p] = Done("createRole", PrismaError("P2002"))]
            /\ UNCHANGED roles
       ELSE /\ roles' = roles \cup
                    { [id |-> CHOOSE id \in CustomRoleIds : FreshRoleId(id), name |-> name,
                       permissions |-> permissions, isSystem |-> FALSE] }
            /\ proc' = [proc EXCEPT ![p] = Replied("createRole", 201)]
    /\ UNCHANGED <<now, userRoles>>
    /\ Frame_roles

\* a field that the updates object does not carry (undefined)
Unset == <<Null>>

\* updates.name is truthy
Truthy(name) == name # Null /\ name # ""

\* the guard that lets every update of a system role through
RenamesSystemRole_never(role, updates) == FALSE

\* if (role.isSystem && updates.name) throw new Error('Cannot rename system roles')
RenamesSystemRole(role, updates) == role.isSystem /\ Truthy(updates.name)

\* updateRole(roleId, updates): findUnique and the checks before the update
UpdateRole_find(p, roleId, updates) ==
    /\ Free(p)
    /\ proc' = [proc EXCEPT ![p] =
            IF ~\E r \in roles : r.id = roleId
            THEN Done("updateRole", PlainError("Role not found"))
            ELSE IF RenamesSystemRole(RoleById(roleId), updates)
            THEN Done("updateRole", PlainError("Cannot rename system roles"))
            ELSE IF updates.permissions # Unset /\ Len(invalidPerms(updates.permissions)) > 0
            THEN Done("updateRole", PlainError("Invalid permissions"))
            ELSE [op |-> "updateRole", pc |-> "update", thrown |-> NoError, status |-> 0,
                  roleId |-> roleId, updates |-> updates]]
    /\ UNCHANGED <<now, roles, userRoles>>
    /\ Frame_roles

\* return prisma.role.update({ where: { id: roleId }, data: updates })
UpdateRole_update(p) ==
    /\ proc[p].op = "updateRole" /\ proc[p].pc = "update"
    /\ LET updates == proc[p].updates
       IN  IF ~\E r \in roles : r.id = proc[p].roleId
           THEN /\ proc' = [proc EXCEPT ![p] = Done("updateRole", PrismaError("P2025"))]
                /\ UNCHANGED roles
           ELSE IF updates.name # Null
                    /\ \E r \in roles : r.id # proc[p].roleId /\ r.name = updates.name
           THEN /\ proc' = [proc EXCEPT ![p] = Done("updateRole", PrismaError("P2002"))]
                /\ UNCHANGED roles
           ELSE /\ roles' = { IF r.id # proc[p].roleId THEN r
                              ELSE [r EXCEPT
                                      !.name = IF updates.name = Null THEN @ ELSE updates.name,
                                      !.permissions = IF updates.permissions = Unset THEN @
                                                      ELSE updates.permissions] : r \in roles }
                /\ proc' = [proc EXCEPT ![p] = Done("updateRole", NoError)]
    /\ UNCHANGED <<now, userRoles>>
    /\ Frame_roles

\* deleteRole(roleId): findUnique and the checks before the deletions
DeleteRole_find(p, roleId) ==
    /\ Free(p)
    /\ proc' = [proc EXCEPT ![p] =
            IF ~\E r \in roles : r.id = roleId
            THEN Done("deleteRole", PlainError("Role not found"))
            ELSE IF RoleById(roleId).isSystem
            THEN Done("deleteRole", PlainError("Cannot delete system roles"))
            ELSE [op |-> "deleteRole", pc |-> "deleteMany", thrown |-> NoError, status |-> 0,
                  roleId |-> roleId]]
    /\ UNCHANGED <<now, roles, userRoles>>
    /\ Frame_roles

\* await prisma.userRole.deleteMany({ where: { roleId } })
DeleteRole_deleteMany(p) ==
    /\ proc[p].op = "deleteRole" /\ proc[p].pc = "deleteMany"
    /\ userRoles' = SelectSeq(userRoles, LAMBDA row : row.roleId # proc[p].roleId)
    /\ proc' = [proc EXCEPT ![p] = [proc[p] EXCEPT !.pc = "delete"]]
    /\ UNCHANGED <<now, roles>>
    /\ Frame_roles

\* await prisma.role.delete({ where: { id: roleId } })
DeleteRole_delete(p) ==
    /\ proc[p].op = "deleteRole" /\ proc[p].pc = "delete"
    /\ IF ~\E r \in roles : r.id = proc[p].roleId
       THEN /\ proc' = [proc EXCEPT ![p] = Done("deleteRole", PrismaError("P2025"))]
            /\ UNCHANGED <<roles, userRoles>>
       ELSE IF roleFk = "restrict"
                /\ \E i \in 1..Len(userRoles) : userRoles[i].roleId = proc[p].roleId
       THEN /\ proc' = [proc EXCEPT ![p] = Done("deleteRole", PrismaError("P2003"))]
            /\ UNCHANGED <<roles, userRoles>>
       ELSE /\ roles' = {r \in roles : r.id # proc[p].roleId}
            /\ userRoles' = IF roleFk = "cascade"
                            THEN SelectSeq(userRoles, LAMBDA row : row.roleId # proc[p].roleId)
                            ELSE userRoles
            /\ proc' = [proc EXCEPT ![p] = Done("deleteRole", NoError)]
    /\ UNCHANGED now
    /\ Frame_roles

\* for (const [name, config] of Object.entries(DEFAULT_ROLES)): the order of the literal
DefaultRoleNames == <<"admin", "hr_manager", "team_lead", "member", "viewer">>

\* initializeRoles, one turn of the loop: await prisma.role.upsert({ where: { name }, ... })
InitializeRoles_upsert(p) ==
    /\ Free(p) \/ (proc[p].op = "initializeRoles" /\ proc[p].pc = "upsert")
    /\ LET i == IF Free(p) THEN 1 ELSE proc[p].i
           name == DefaultRoleNames[i]
       IN  /\ roles' =
                IF \E r \in roles : r.name = name
                THEN { IF r.name = name THEN [r EXCEPT !.permissions = DEFAULT_ROLES[name]]
                       ELSE r : r \in roles }
                ELSE roles \cup {CHOOSE r \in initializeRoles : r.name = name}
           /\ proc' = [proc EXCEPT ![p] =
                IF i = Len(DefaultRoleNames) THEN Done("initializeRoles", NoError)
                ELSE [op |-> "initializeRoles", pc |-> "upsert", thrown |-> NoError,
                      status |-> 0, i |-> i + 1]]
    /\ UNCHANGED <<now, userRoles>>
    /\ Frame_roles

\* the requests of the administrator
CustomNames == {"auditor"}
PermissionInputs ==
    { <<"users:read">>, <<"users:read", "not:a:real:permission">>, <<"constructor">> }
UpdateInputs ==
    { [name |-> name, permissions |-> permissions] :
        name \in {Null, "renamed"},
        permissions \in {Unset, <<"teams:read">>, <<"not:a:real:permission">>} }
AdministeredRoleIds == {"r_viewer", "r_c1"}
AssignedUsers == {"u1"}
AssignedRoleNames == {"auditor", "viewer"}

\* u1 may hold the system role viewer
InitRoleAdmin ==
    /\ now = 0
    /\ roles = initializeRoles
    /\ userRoles \in { <<>>, <<Grant("u1", "r_viewer")>> }
    /\ uniqueIdx = TRUE
    /\ roleFk = "restrict"
    /\ users = NoFailures
    /\ memoryStore = {}
    /\ teamMembers = EmptyTeamMembers
    /\ auditLogs = <<>>
    /\ incidents = <<>>
    /\ proc = [p \in Procs |-> Idle]
    /\ resp = NoResp

\* the administrator's requests, two at a time
NextRoleAdmin ==
    \/ \E p \in Procs, name \in CustomNames, permissions \in PermissionInputs :
            CreateRole_create(p, name, permissions)
    \/ \E p \in Procs, roleId \in AdministeredRoleIds, updates \in UpdateInputs :
            UpdateRole_find(p, roleId, updates)
    \/ \E p \in Procs : UpdateRole_update(p)
    \/ \E p \in Procs, roleId \in AdministeredRoleIds : DeleteRole_find(p, roleId)
    \/ \E p \in Procs : DeleteRole_deleteMany(p)
    \/ \E p \in Procs : DeleteRole_delete(p)
    \/ InitializeRoles_upsert(1)

SpecRoleAdmin == InitRoleAdmin /\ [][NextRoleAdmin]_vars

\* the custom role auditor has been created; the storage layer is any of
\* RoleForeignKey
InitRoleLedger ==
    /\ now = 0
    /\ roles = initializeRoles \cup
            { [id |-> "r_c1", name |-> "auditor", permissions |-> <<"users:read">>,
               isSystem |-> FALSE] }
    /\ userRoles = <<>>
    /\ uniqueIdx = TRUE
    /\ roleFk \in RoleForeignKey
    /\ users = NoFailures
    /\ memoryStore = {}
    /\ teamMembers = EmptyTeamMembers
    /\ auditLogs = <<>>
    /\ incidents = <<>>
    /\ proc = [p \in Procs |-> Idle]
    /\ resp = NoResp

\* roles assigned and revoked while roles are deleted and created again
NextRoleLedger ==
    \/ \E p \in Procs, name \in CustomNames :
            CreateRole_create(p, name, <<"users:read">>)
    \/ \E p \in Procs, roleId \in AdministeredRoleIds : DeleteRole_find(p, roleId)
    \/ \E p \in Procs : DeleteRole_deleteMany(p)
    \/ \E p \in Procs : DeleteRole_delete(p)
    \/ \E p \in Procs, userId \in AssignedUsers, roleName \in AssignedRoleNames :
            AssignRole_findRole(p, userId, roleName, NullDate)
    \/ \E p \in Procs : AssignRole_findExisting(p)
    \/ \E p \in Procs : AssignRole_create(p)
    \/ \E p \in Procs, userId \in AssignedUsers, roleName \in AssignedRoleNames :
            RevokeRole_findRole(p, userId, roleName)
    \/ \E p \in Procs : RevokeRole_deleteMany(p)

SpecRoleLedger == InitRoleLedger /\ [][NextRoleLedger]_vars

(***************************************************************************)
(* Properties of role administration                                       *)
(***************************************************************************)
\* every identifier of permissions is a key of the Permission Catalog
InCatalog(permissions) == \A i \in 1..Len(permissions) : Includes(PERMISSIONS, permissions[i])

RoleExists(roleId) == \E r \in roles : r.id = roleId

\* slot p has been refused and the Role Store is as before
Refused(p) == proc'[p].pc = "done" /\ proc'[p].thrown # NoError /\ roles' = roles

\* C18: every permission identifier of every stored role is a key of the
\* Permission Catalog, whatever createRole, updateRole and initializeRoles
\* calls have run; createRole and updateRole given an identifier outside the
\* catalog fail with a validation error (answered 400) and leave the Role
\* Store as it was; createRole with catalog identifiers only and a new name
\* stores the role.
C18_StoredPermissionsAreCatalogKeys ==
    [][/\ \A r \in roles' : InCatalog(r.permissions)
       /\ \A p \in Procs, name \in CustomNames, permissions \in PermissionInputs :
            CreateRole_create(p, name, permissions)
              => IF InCatalog(permissions)
                 THEN (\E r \in roles : r.name = name)
                      \/ (/\ proc'[p].thrown = NoError
                          /\ \E r \in roles' : r.name = name /\ r.permissions = permissions)
                 ELSE Refused(p) /\ proc'[p].status = 400
       /\ \A p \in Procs, roleId \in AdministeredRoleIds, updates \in UpdateInputs :
            ( /\ UpdateRole_find(p, roleId, updates)
              /\ RoleExists(roleId)
              /\ ~RenamesSystemRole(RoleById(roleId), updates)
              /\ updates.permissions # Unset
              /\ ~InCatalog(updates.permissions) )
              => Refused(p) /\ proc'[p].status = 400]_vars

C20_NoAssignmentOfAnAbsentRole ==
    [][/\ \A i \in 1..Len(userRoles') : \E r \in roles' : r.id = userRoles'[i].roleId
       /\ \A p \in Procs :
            (Steps(p) /\ proc[p].op = "deleteRole" /\ proc[p].pc = "deleteMany")
              => ~\E i \in 1..Len(userRoles') : userRoles'[i].roleId = proc[p].roleId
       /\ \A p \in Procs :
            (Steps(p) /\ proc[p].op = "deleteRole" /\ proc[p].pc = "delete")
              => ~\E r \in roles' : r.id = proc[p].roleId]_vars

(***************************************************************************)
(* Audit service: cleanupOldLogs                                           *)
(***************************************************************************)
\* 24 * 60 * 60 * 1000 milliseconds, in the minutes of the clock
DayMinutes == 24 * 60

\* the values of process.env.AUDIT_LOG_RETENTION_DAYS; Null: not set
RetentionEnv == {Null, "abc", "0", "1", "2"}

NaN == [isNaN |-> TRUE, n |-> 0]

\* parseInt(string): the leading integer of the string, NaN when there is none
parseInt(string) ==
    IF string = "0" THEN [isNaN |-> FALSE, n |-> 0]
    ELSE IF string = "1" THEN [isNaN |-> FALSE, n |-> 1]
    ELSE IF string = "2" THEN [isNaN |-> FALSE, n |-> 2]
    ELSE NaN

\* const retentionDays = parseInt(process.env.AUDIT_LOG_RETENTION_DAYS) || 365
retentionDays(env) ==
    LET parsed == parseInt(env)
    IN  IF parsed.isNaN \/ parsed.n = 0 THEN 365 ELSE parsed.n

\* const cutoffDate = new Date(Date.now() - retentionDays * 24 * 60 * 60 * 1000)
cutoffDate(days, t) == t - days * DayMinutes

\* where: { createdAt: { lte: cutoffDate } }
OlderThan_lte(row, cutoff) == row.createdAt <= cutoff

\* where: { createdAt: { lt: cutoffDate } }
OlderThan(row, cutoff) == row.createdAt < cutoff

\* cleanupOldLogs has returned result.count
Cleaned(days, count) ==
    [op |-> "cleanupOldLogs", pc |-> "done", thrown |-> NoError, status |-> 200,
     retentionDays |-> days, result |-> count]

\* const result = await prisma.auditLog.deleteMany({ where: { createdAt: { lt: cutoffDate } } });
\* return result.count
CleanupOldLogs(p, env) ==
    /\ Free(p)
    /\ LET days == retentionDays(env)
           cutoff == cutoffDate(days, now)
           kept == SelectSeq(auditLogs, LAMBDA row : ~OlderThan(row, cutoff))
       IN  /\ auditLogs' = kept
           /\ proc' = [proc EXCEPT ![p] = Cleaned(days, Len(auditLogs) - Len(kept))]
    /\ UNCHANGED <<now, incidents>>
    /\ Frame_audit

\* the clock steps by half a day, up to MaxRetentionTicks steps
RetentionTick == DayMinutes \div 2
MaxRetentionTicks == 4
MaxRetentionLog == 2

TickRetention ==
    /\ \A p \in Procs : Free(p)
    /\ now + RetentionTick <= MaxRetentionTicks * RetentionTick
    /\ now' = now + RetentionTick
    /\ resp' = NoResp
    /\ UNCHANGED <<roles, userRoles, uniqueIdx, roleFk, users, memoryStore, teamMembers, auditLogs, incidents, proc>>

\* the events recorded between clean-ups: one without an actor, one of u1
RetentionEvents == { <<Null, "LOGIN_FAILED", "ip1">>, <<"u1", "LOGIN", "ip1">> }

NextRetention ==
    \/ \E p \in Procs, event \in RetentionEvents :
            Len(auditLogs) < MaxRetentionLog /\ Log_create(p, event[1], event[2], event[3])
    \/ \E p \in Procs : Detect_findIPs(p)
    \/ \E p \in Procs, env \in RetentionEnv : CleanupOldLogs(p, env)
    \/ TickRetention

SpecRetention == InitAudit /\ [][NextRetention]_vars

\* how many entries of the log equal row
Copies(log, row) == Cardinality({i \in 1..Len(log) : log[i] = row})

\* p's call of cleanupOldLogs returns in this step
CleanupReturns(p) == proc'[p] # proc[p] /\ proc'[p].op = "cleanupOldLogs"

\* C21: a call of cleanupOldLogs with retention window N days removes every
\* entry created strictly before now - N days and no other, keeps every entry
\* created at or after that instant unchanged and in order, and returns the
\* number of entries it removed.
C21_CleanupDeletesExactlyTheOld ==
    [][\A p \in Procs : CleanupReturns(p) =>
        LET cutoff == now - proc'[p].retentionDays * DayMinutes
            old == {i \in 1..Len(auditLogs) : auditLogs[i].createdAt < cutoff}
        IN  /\ \A i \in 1..Len(auditLogs') : auditLogs'[i].createdAt >= cutoff
            /\ \A i \in 1..Len(auditLogs) \ old :
                    Copies(auditLogs', auditLogs[i]) = Copies(auditLogs, auditLogs[i])
            /\ Len(auditLogs') = Len(auditLogs) - Cardinality(old)
            /\ proc'[p].result = Cardinality(old)]_vars

\* a clean-up with a window of one day has removed an entry and kept one
\* created exactly at the cutoff
C21_Witness ==
    \E p \in Procs :
        /\ proc[p].op = "cleanupOldLogs" /\ proc[p].retentionDays = 1
        /\ proc[p].result >= 1
        /\ \E i \in 1..Len(auditLogs) : auditLogs[i].createdAt = now - DayMinutes

(***************************************************************************)
(* Audit service: the rule on several origin addresses                     *)
(***************************************************************************)
MaxOriginNow == 45
MaxOriginLog == 6

\* the addresses u1 has been seen from, and the events recorded: u1 from a
\* known and from two new addresses, and events without an actor
SeenIPs == <<"ip1", "ip2", "ip3">>
OriginEvents ==
    { <<"u1", "LOGIN", "ip1">>, <<"u1", "LOGIN", "ip4">>, <<"u1", "LOGIN", "ip5">>,
      <<Null, "LOGIN_FAILED", "ip5">> }

\* u1 has been active from three addresses within the minute
InitOrigins ==
    /\ now = 0
    /\ roles = initializeRoles
    /\ userRoles = <<>>
    /\ uniqueIdx = TRUE   \* read by assignRole only
    /\ roleFk = "restrict"   \* read when a role is deleted only
    /\ users = NoFailures
    /\ memoryStore = {}
    /\ teamMembers = EmptyTeamMembers
    /\ auditLogs = [i \in 1..Len(SeenIPs) |->
            AuditRow(LogCall(NoCaller, "u1", "LOGIN", Null, SeenIPs[i]), 0)]
    /\ incidents = <<>>
    /\ proc = [p \in Procs |-> Idle]
    /\ resp = NoResp

TickOrigins ==
    /\ \A p \in Procs : Free(p)
    /\ now + TickMinutes <= MaxOriginNow
    /\ now' = now + TickMinutes
    /\ resp' = NoResp
    /\ UNCHANGED <<roles, userRoles, uniqueIdx, roleFk, users, memoryStore, teamMembers, auditLogs, incidents, proc>>

NextOrigins ==
    \/ \E p \in Procs, event \in OriginEvents :
            Len(auditLogs) < MaxOriginLog /\ Log_create(p, event[1], event[2], event[3])
    \/ \E p \in Procs : Detect_findIPs(p)
    \/ \E p \in Procs : Incident_findFirst(p)
    \/ \E p \in Procs : Incident_write(p)
    \/ TickOrigins

SpecOrigins == InitOrigins /\ [][NextOrigins]_vars

\* the origin addresses of the actor's entries of the last 30 minutes
OriginsOf(userId) ==
    {auditLogs[i].ipAddress : i \in {j \in 1..Len(auditLogs) :
        auditLogs[j].userId = userId /\ auditLogs[j].createdAt >= now - 30}}

\* the log call p has a MEDIUM SUSPICIOUS_ACTIVITY incident naming its actor to raise
RaisesSuspicious(h) ==
    /\ h.op = "log" /\ h.pc = "findIncident"
    /\ h.candidate.type = "SUSPICIOUS_ACTIVITY" /\ h.candidate.severity = "MEDIUM"
    /\ h.candidate.affectedUsers = {h.userId}

\* an incident of that kind naming userId is stored
SuspiciousStored(log, userId) ==
    \E i \in 1..Len(log) :
        /\ log[i].type = "SUSPICIOUS_ACTIVITY" /\ log[i].severity = "MEDIUM"
        /\ userId \in log[i].affectedUsers

MaxAccessNow == 75
MaxAccessLog == 51

\* the accesses of u1 recorded so far: two below the threshold
SeenAccesses == SENSITIVE_ACCESS_THRESHOLD - 2

AccessEvents ==
    { <<"u1", "SENSITIVE_DATA_ACCESSED", "ip1">>, <<"u1", "LOGIN", "ip1">>,
      <<Null, "SENSITIVE_DATA_ACCESSED", "ip1">> }

InitAccess ==
    /\ now = 0
    /\ roles = initializeRoles
    /\ userRoles = <<>>
    /\ uniqueIdx = TRUE   \* read by assignRole only
    /\ roleFk = "restrict"   \* read when a role is deleted only
    /\ users = NoFailures
    /\ memoryStore = {}
    /\ teamMembers = EmptyTeamMembers
    /\ auditLogs = [i \in 1..SeenAccesses |->
            AuditRow(LogCall(NoCaller, "u1", "SENSITIVE_DATA_ACCESSED", Null, "ip1"), 0)]
    /\ incidents = <<>>
    /\ proc = [p \in Procs |-> Idle]
    /\ resp = NoResp

TickAccess ==
    /\ \A p \in Procs : Free(p)
    /\ now + TickMinutes <= MaxAccessNow
    /\ now' = now + TickMinutes
    /\ resp' = NoResp
    /\ UNCHANGED <<roles, userRoles, uniqueIdx, roleFk, users, memoryStore, teamMembers, auditLogs, incidents, proc>>

NextAccess ==
    \/ \E p \in Procs, event \in AccessEvents :
            Len(auditLogs) < MaxAccessLog /\ Log_create(p, event[1], event[2], event[3])
    \/ \E p \in Procs : Detect_countAccess(p)
    \/ \E p \in Procs : Detect_findIPs(p)
    \/ \E p \in Procs : Incident_findFirst(p)
    \/ \E p \in Procs : Incident_write(p)
    \/ TickAccess

SpecAccess == InitAccess /\ [][NextAccess]_vars

\* the actor's SENSITIVE_DATA_ACCESSED entries of the last 60 minutes
AccessesOf(userId) ==
    {i \in 1..Len(auditLogs) :
        /\ auditLogs[i].userId = userId
        /\ auditLogs[i].action = "SENSITIVE_DATA_ACCESSED"
        /\ auditLogs[i].createdAt >= now - 60}

\* C23: when the rule on sensitive accesses is evaluated for a recorded
\* SENSITIVE_DATA_ACCESSED event of an actor, a MEDIUM SUSPICIOUS_ACTIVITY
\* incident naming the actor is raised (created, or merged into a stored one)
\* exactly when the actor's SENSITIVE_DATA_ACCESSED entries of the last 60
\* minutes, the new one included, number at least 50; the rule is evaluated
\* for every such event and for no event of another action or without actor.
C23_ExcessiveAccessRule ==
    [][\A p \in Procs :
        /\ (Steps(p) /\ proc[p].op = "log" /\ proc[p].pc = "countAccess")
              => /\ RaisesSuspicious(proc'[p])
                        <=> Cardinality(AccessesOf(proc[p].userId)) >= 50
                 /\ RaisesSuspicious(proc'[p]) \/ proc'[p].pc = "findIPs"
                 /\ \E i \in AccessesOf(proc[p].userId) : auditLogs[i] = AuditRow(proc[p], now)
        /\ (Steps(p) /\ proc[p].op = "log" /\ proc[p].pc = "writeIncident")
              => /\ proc[p].rule = 2
                 /\ SuspiciousStored(incidents', proc[p].userId)
                 /\ Len(incidents') = Len(incidents) + (IF proc[p].existing = 0 THEN 1 ELSE 0)
        /\ (Steps(p) /\ Free(p) /\ proc'[p].op = "log")
              => LET row == auditLogs'[Len(auditLogs')]
                 IN  (proc'[p].pc = "countAccess")
                        <=> (row.action = "SENSITIVE_DATA_ACCESSED" /\ row.userId # Null)]_vars

\* the 50th access of u1 within the hour has raised an incident, and events
\* of another action and without an actor have been recorded
C23_Witness ==
    /\ SuspiciousStored(incidents, "u1")
    /\ Cardinality(AccessesOf("u1")) >= 50
    /\ \E i \in 1..Len(auditLogs) : auditLogs[i].userId = Null

(***************************************************************************)
(* Audit service: an evaluation whose storage query does not answer        *)
(***************************************************************************)
\* the pending database call of the log call p never answers: the await
\* never resumes (log and _detectSuspiciousActivity set no timer and race the
\* query against nothing)
Log_hangs(p) ==
    /\ proc[p].op = "log" /\ proc[p].pc \notin {"done", "hung"}
    /\ proc' = [proc EXCEPT ![p] = [proc[p] EXCEPT !.pc = "hung"]]
    /\ UNCHANGED <<now, auditLogs, incidents>>
    /\ Frame_audit

\* the size of the audit log while evaluations are pending
MaxPendingLog == 6

\* the answer of the database call the log call p awaits
Answer(p) ==
    \/ Detect_countFailures(p)
    \/ Detect_findIPs(p)
    \/ Incident_findFirst(p)
    \/ Incident_write(p)

NextPending ==
    \/ \E p \in Procs :
            /\ Len(auditLogs) < MaxPendingLog
            /\ Log_create(p, FailedLogin[1], FailedLogin[2], FailedLogin[3])
    \/ \E p \in Procs : Detect_countFailures(p)
    \/ \E p \in Procs : Detect_findIPs(p)
    \/ \E p \in Procs : Incident_findFirst(p)
    \/ \E p \in Procs : Incident_write(p)
    \/ \E p \in Procs : Log_hangs(p)
    \/ TickAudit

\* a query that answers is answered in the end and the event loop then runs
\* the continuation; nothing obliges a query to answer, or a request to come
SpecPending ==
    InitIncident /\ [][NextPending]_vars /\ \A p \in Procs : WF_vars(Answer(p))

\* C24: every anomaly evaluation in flight comes to an end, also one whose
\* storage query never answers.
C24_EvaluationTerminates ==
    \A p \in Procs : (proc[p].op = "log" /\ proc[p].pc # "done") ~> Free(p)

(***************************************************************************)
(* Rate limiter middleware                                                 *)
(***************************************************************************)
\* windowMs in the minutes of the clock
RATE_LIMITS ==
    [default |-> [windowMs |-> 15, max |-> 100],
     auth    |-> [windowMs |-> 15, max |-> 10],
     api     |-> [windowMs |-> 1, max |-> 60],
     ai      |-> [windowMs |-> 60, max |-> 20],
     export  |-> [windowMs |-> 60, max |-> 10]]

\* the request paths of the model
Paths == {"/", "/health", "/api/v1/teams"}

\* path.includes(...) and path.startsWith('/api/') on the paths of the model
PathIncludes(path, part) == path = "/api/v1/teams" /\ part = "/api/"

getRateLimitConfig(path) ==
    IF PathIncludes(path, "/auth/login") \/ PathIncludes(path, "/auth/register")
    THEN RATE_LIMITS.auth
    ELSE IF PathIncludes(path, "/ai/") THEN RATE_LIMITS.ai
    ELSE IF PathIncludes(path, "/export") \/ PathIncludes(path, "/download")
    THEN RATE_LIMITS.export
    ELSE IF PathIncludes(path, "/api/") THEN RATE_LIMITS.api
    ELSE RATE_LIMITS.default

\* getClientId of a request without req.user: `ip:${ip}`
getClientId(ip) == <<"ip", ip>>

\* const key = `ratelimit:${req.path}:${clientId}`
RateLimitKey(path, clientId) == <<"ratelimit", path, clientId>>

\* memoryStore.get(key): the entry, or none
StoreGet(key) == {e \in memoryStore : e.key = key}

\* rateLimiter, which awaits nothing and so runs as one step: the entry of
\* the key is read or started anew, counted up and compared with config.max
RateLimiter(path, ip) ==
    LET config == getRateLimitConfig(path)
        key == RateLimitKey(path, getClientId(ip))
        stale == {e \in StoreGet(key) : e.resetTime < now}
        data == IF StoreGet(key) = {} \/ stale # {}
                THEN [key |-> key, count |-> 0, resetTime |-> now + config.windowMs]
                ELSE CHOOSE e \in StoreGet(key) : TRUE
    IN  /\ memoryStore' = (memoryStore \ StoreGet(key)) \cup {[data EXCEPT !.count = @ + 1]}
        /\ resp' = [op |-> "rateLimiter",
                    status |-> IF data.count + 1 > config.max THEN 429 ELSE 0]
        /\ UNCHANGED <<now, roles, userRoles, uniqueIdx, roleFk, users, teamMembers,
                       auditLogs, incidents, proc>>

\* setInterval(() => { ... if (data.resetTime < now) memoryStore.delete(key) }, 60000)
Sweep ==
    /\ \E e \in memoryStore : e.resetTime < now
    /\ memoryStore' = {e \in memoryStore : ~(e.resetTime < now)}
    /\ resp' = NoResp
    /\ UNCHANGED <<now, roles, userRoles, uniqueIdx, roleFk, users, teamMembers,
                   auditLogs, incidents, proc>>

\* the requests refused per window of a key, and the horizon of the clock
MaxRefused == 1
MaxLimiterNow == 15

TickLimiter ==
    /\ now + TickMinutes <= MaxLimiterNow
    /\ now' = now + TickMinutes
    /\ resp' = NoResp
    /\ UNCHANGED <<roles, userRoles, uniqueIdx, roleFk, users, memoryStore, teamMembers,
                   auditLogs, incidents, proc>>

LimitedIPs == {"ip1"}

NextLimiter ==
    \/ \E path \in Paths, ip \in LimitedIPs :
            /\ \A e \in StoreGet(RateLimitKey(path, getClientId(ip))) :
                    e.count < getRateLimitConfig(path).max + MaxRefused \/ e.resetTime < now
            /\ RateLimiter(path, ip)
    \/ Sweep
    \/ TickLimiter

\* ip1 has made 99 requests of path / within the minute
SeenRequests == RATE_LIMITS.default.max - 1

InitLimiter ==
    /\ now = 0
    /\ roles = initializeRoles
    /\ userRoles = <<>>
    /\ uniqueIdx = TRUE   \* read by assignRole only
    /\ roleFk = "restrict"   \* read when a role is deleted only
    /\ users = NoFailures
    /\ memoryStore = {[key |-> RateLimitKey("/", getClientId("ip1")), count |-> SeenRequests,
                        resetTime |-> RATE_LIMITS.default.windowMs]}
    /\ teamMembers = EmptyTeamMembers
    /\ auditLogs = <<>>
    /\ incidents = <<>>
    /\ proc = [p \in Procs |-> Idle]
    /\ resp = NoResp

SpecLimiter == InitLimiter /\ [][NextLimiter]_vars

\* the requests the limiter has admitted in the window of the entry e
AdmittedIn(e) ==
    LET max == getRateLimitConfig(e.key[2]).max
    IN  IF e.count > max THEN max ELSE e.count

RECURSIVE SumAdmitted(_)
SumAdmitted(entries) ==
    IF entries = {} THEN 0
    ELSE LET e == CHOOSE x \in entries : TRUE
         IN  AdmittedIn(e) + SumAdmitted(entries \ {e})

\* the entries of ip whose window began within the last 15 minutes: the
\* requests they count were all made in that interval
RecentWindows(ip) ==
    {e \in memoryStore :
        /\ e.key[3] = getClientId(ip)
        /\ e.resetTime - getRateLimitConfig(e.key[2]).windowMs >= now - 15}

\* C25: in any interval of 15 minutes the limiter admits at most 100
\* requests of one IP address, whatever their paths.
C25_HundredPerQuarterHourPerIP ==
    \A ip \in LimitedIPs : SumAdmitted(RecentWindows(ip)) <= 100

(***************************************************************************)
(* Role assignment: the duplicate check and expired assignments            *)
(***************************************************************************)
\* the ledger rows of the pair, whatever their expiry
RowsOf(userId, roleId) ==
    {i \in 1..Len(userRoles) : userRoles[i].userId = userId /\ userRoles[i].roleId = roleId}

\* C26: an assignRole call whose duplicate check finds a row of its (actor,
\* role) pair, expired or not, is rejected with "User already has role" and
\* adds nothing; so while a row of the pair exists and hasRole is false (the
\* assignment has expired), hasRole stays false, and the row goes only by the
\* deleteMany of revokeRole.
C26_ExpiredRowBlocksRegrant ==
    [][/\ \A p \in Procs :
            (Steps(p) /\ proc[p].op = "assignRole" /\ proc[p].pc = "findExisting"
                /\ RowsOf(proc[p].userId, proc[p].roleId) # {})
              => /\ proc'[p] = Done("assignRole", PlainError("User already has role"))
                 /\ userRoles' = userRoles
       /\ \A userId \in Users, role \in roles :
            RowsOf(userId, role.id) # {}
              => /\ ~hasRole(userId, role.name, now) => ~hasRole(userId, role.name, now)'
                 /\ RowsOf(userId, role.id)' = {}
                      => \E p \in Procs :
                            /\ Steps(p) /\ proc[p].op = "revokeRole"
                            /\ proc[p].userId = userId /\ proc[p].roleId = role.id]_vars

\* u1's assignment of member has expired, and a further assignRole of it has
\* just been rejected as a duplicate
C26_Witness ==
    /\ proc[1] = Done("assignRole", PlainError("User already has role"))
    /\ \E i \in RowsOf("u1", RoleByName("member").id) :
            userRoles[i].expiresAt # NullDate /\ userRoles[i].expiresAt <= now
    /\ ~hasRole("u1", "member", now)

(***************************************************************************)
(* The permission gate: the token and the ledger                           *)
(***************************************************************************)
\* the token lists one of the required permissions
TokenLists(tokenPermissions, permissions) ==
    \E i \in 1..Len(permissions), j \in 1..Len(tokenPermissions) :
        tokenPermissions[j] = permissions[i]

\* the ledger grants userId one of the required permissions now
LedgerGrants(userId, permissions) ==
    \E i \in 1..Len(permissions), k \in 1..Len(userRoles) :
        /\ userRoles[k].userId = userId
        /\ userRoles[k].expiresAt = NullDate \/ userRoles[k].expiresAt > now
        /\ \E r \in roles :
              /\ r.id = userRoles[k].roleId
              /\ \E j \in 1..Len(r.permissions) : r.permissions[j] = permissions[i]

\* the middleware has called next(): the request goes on to its handler
Admitted(h) == h.pc = "done" /\ h.thrown = NoError /\ h.proceeded

\* the middleware has called next(new AuthorizationError(...)): 403
Denied(h) == h.pc = "done" /\ h.thrown # NoError /\ h.thrown # StorageError /\ ~h.proceeded

\* C27: requirePermission admits a request at once when its token lists one
\* of the required permissions, whatever the ledger says; otherwise it asks
\* the ledger and admits the request exactly when the ledger grants the
\* actor one of them at the moment it decides; it denies (403) only when
\* neither the token nor the ledger has any of them.
C27_TokenOrLedgerAdmits ==
    [][\A p \in Procs :
        /\ (Steps(p) /\ Free(p) /\ proc'[p].op = "requirePermission")
              => IF TokenLists(proc'[p].tokenPermissions, proc'[p].permissions)
                 THEN Admitted(proc'[p])
                 ELSE proc'[p].pc = "dbCheck"
        /\ (Steps(p) /\ proc[p].op = "requirePermission" /\ proc[p].pc = "dbCheck")
              => /\ ~TokenLists(proc[p].tokenPermissions, proc[p].permissions)
                 /\ Admitted(proc'[p]) => LedgerGrants(proc[p].userId, proc[p].permissions)
                 /\ Denied(proc'[p])
                        => /\ ~LedgerGrants(proc[p].userId, proc[p].permissions)
                           /\ proc'[p].status = 403
                 /\ (proc'[p].pc = "dbCheck"
                        /\ LedgerGrants(proc[p].userId, proc[p].permissions))
                        => \E i \in (proc'[p].i)..Len(proc[p].permissions) :
                              hasPermission(proc[p].userId, proc[p].permissions[i], now)]_vars

\* a request of u1 has been admitted on its token's teams:write although the
\* assignment that granted it has expired
C27_Witness ==
    \E p \in Procs :
        /\ proc[p].op = "requirePermission" /\ Admitted(proc[p])
        /\ "tokenPermissions" \in DOMAIN proc[p]
        /\ proc[p].userId = "u1"
        /\ TokenLists(proc[p].tokenPermissions, <<"teams:write">>)
        /\ ~LedgerGrants("u1", proc[p].permissions)
        /\ \E k \in 1..Len(userRoles) :
              userRoles[k].userId = "u1" /\ userRoles[k].expiresAt # NullDate
              /\ userRoles[k].expiresAt <= now

(***************************************************************************)
(* Team membership: two remove-member requests at once                     *)
(***************************************************************************)
\* t1 has two active OWNERs, u1 and u2; t2 has its creator u2 only
InitOwners ==
    /\ now = 0
    /\ roles = initializeRoles
    /\ userRoles = <<>>
    /\ uniqueIdx = TRUE   \* read by assignRole only
    /\ roleFk = "restrict"   \* read when a role is deleted only
    /\ users = NoFailures
    /\ memoryStore = {}
    /\ teamMembers = [k \in Teams \X Users |->
            IF k[1] = "t1" \/ k[2] = "u2" THEN [role |-> "OWNER", leftAt |-> NullDate]
            ELSE NoRow]
    /\ auditLogs = <<>>
    /\ incidents = <<>>
    /\ proc = [p \in Procs |-> Idle]
    /\ resp = NoResp

\* remove-member requests of t1 served by both handler slots
NextOwners ==
    \/ \E p \in Procs, requester \in Users, teamId \in ManagedTeams, userId \in Users :
            RemoveMember_auth(p, requester, teamId, userId)
    \/ \E p \in Procs : RemoveMember_count(p)
    \/ \E p \in Procs : RemoveMember_find(p)
    \/ \E p \in Procs : RemoveMember_update(p)
    \/ Tick

SpecOwners == InitOwners /\ [][NextOwners]_vars

\* p's request has counted the owners and has not yet removed its target
BetweenCountAndUpdate(p) ==
    proc[p].op = "removeMember" /\ proc[p].pc \in {"find", "update"}

\* C28: when a remove-member request removes an OWNER of a team, no other
\* request for another OWNER of that team is between its owner count and its
\* removal, and the team keeps at least one active OWNER.
C28_ConcurrentRemovalsKeepAnOwner ==
    [][\A p \in Procs :
        (/\ Steps(p) /\ proc[p].op = "removeMember" /\ proc[p].pc = "update"
         /\ teamMembers[<<proc[p].teamId, proc[p].userId>>].role = "OWNER")
          => /\ \A q \in Procs \ {p} :
                    ~(/\ BetweenCountAndUpdate(q)
                      /\ proc[q].teamId = proc[p].teamId
                      /\ proc[q].userId # proc[p].userId
                      /\ teamMembers[<<proc[q].teamId, proc[q].userId>>].role = "OWNER")
             /\ \E u \in Users :
                    /\ teamMembers'[<<proc[p].teamId, u>>].role = "OWNER"
                    /\ teamMembers'[<<proc[p].teamId, u>>].leftAt = NullDate]_vars

(***************************************************************************)
(* Audit service: the two rules that raise SUSPICIOUS_ACTIVITY             *)
(***************************************************************************)
MaxCrossLog == 51

\* the addresses of the accesses u1 has made so far, in turn
AccessIPs == <<"ip1", "ip2", "ip3", "ip4">>

\* the next access of u1 is the 50th, an event from ip5 brings the 5th address
CrossEvents ==
    { <<"u1", "SENSITIVE_DATA_ACCESSED", "ip1">>, <<"u1", "LOGIN", "ip5">> }

\* u1 has accessed sensitive data 49 times within the minute, from 4 addresses
InitCross ==
    /\ now = 0
    /\ roles = initializeRoles
    /\ userRoles = <<>>
    /\ uniqueIdx = TRUE   \* read by assignRole only
    /\ roleFk = "restrict"   \* read when a role is deleted only
    /\ users = NoFailures
    /\ memoryStore = {}
    /\ teamMembers = EmptyTeamMembers
    /\ auditLogs = [i \in 1..(SENSITIVE_ACCESS_THRESHOLD - 1) |->
            AuditRow(LogCall(NoCaller, "u1", "SENSITIVE_DATA_ACCESSED", Null,
                             AccessIPs[(i % Len(AccessIPs)) + 1]), 0)]
    /\ incidents = <<>>
    /\ proc = [p \in Procs |-> Idle]
    /\ resp = NoResp

NextCross ==
    \/ \E p \in Procs, event \in CrossEvents :
            Len(auditLogs) < MaxCrossLog /\ Log_create(p, event[1], event[2], event[3])
    \/ \E p \in Procs : Detect_countAccess(p)
    \/ \E p \in Procs : Detect_findIPs(p)
    \/ \E p \in Procs : Incident_findFirst(p)
    \/ \E p \in Procs : Incident_write(p)
    \/ TickAccess

SpecCross == InitCross /\ [][NextCross]_vars

\* the stored incidents the detection of h has to be merged into: open
\* SUSPICIOUS_ACTIVITY incidents of its actor, at most one hour old, raised
\* by the other rule
OpenOfOtherRule(h) ==
    {i \in 1..Len(incidents) :
        /\ incidents[i].type = "SUSPICIOUS_ACTIVITY"
        /\ h.userId \in incidents[i].affectedUsers
        /\ incidents[i].status \in {"OPEN", "INVESTIGATING"}
        /\ incidents[i].detectedAt >= now - 60
        /\ incidents[i].title # h.candidate.title}

\* C29: both rules raise type SUSPICIOUS_ACTIVITY, and a detection by one
\* rule written while an open incident of that type for the actor, raised by
\* the other rule within the hour, is stored creates no incident: it is
\* appended to the description of a stored open incident, whose title stays.
C29_RulesShareOneIncident ==
    [][\A p \in Procs :
        (/\ Steps(p) /\ proc[p].op = "log" /\ proc[p].pc = "writeIncident"
         /\ proc[p].rule \in {2, 3})
          => /\ proc[p].candidate.type = "SUSPICIOUS_ACTIVITY"
             /\ OpenOfOtherRule(proc[p]) # {}
                  => /\ Len(incidents') = Len(incidents)
                     /\ \E i \in 1..Len(incidents) :
                          /\ incidents[i].type = "SUSPICIOUS_ACTIVITY"
                          /\ incidents'[i].title = incidents[i].title
                          /\ incidents'[i].description =
                                incidents[i].description \o proc[p].candidate.description]_vars

(***************************************************************************)
(* Auth service: login and the lockout                                     *)
(***************************************************************************)
\* this.maxFailedAttempts and this.lockoutDuration (30 * 60 * 1000 ms, in minutes)
maxFailedAttempts == 5
lockoutDuration == 30

\* user.lockedUntil && user.lockedUntil > new Date()
IsLocked(user, t) == user.lockedUntil # NullDate /\ user.lockedUntil > t

\* what no step of login touches
Frame_login ==
    /\ UNCHANGED <<now, roles, userRoles, uniqueIdx, roleFk, memoryStore, teamMembers,
                   auditLogs, incidents>>
    /\ resp' = NoResp

\* const user = await prisma.user.findUnique({ where: { email } });
\* if (user.lockedUntil && user.lockedUntil > new Date()) throw new Error('Account locked...');
\* isValidPassword is the answer bcrypt.compare will give for the password sent
Login_findUnique(p, userId, isValidPassword) ==
    /\ Free(p)
    /\ proc' = [proc EXCEPT ![p] =
            IF IsLocked(users[userId], now)
            THEN Done("login", PlainError("Account locked"))
            ELSE [op |-> "login", pc |-> "update", thrown |-> NoError, status |-> 0,
                  userId |-> userId, isValidPassword |-> isValidPassword,
                  failedLoginCount |-> users[userId].failedLoginCount]]
    /\ UNCHANGED users
    /\ Frame_login

\* const failedCount = user.failedLoginCount + 1 (of the row read by findUnique);
\* if (failedCount >= this.maxFailedAttempts) updateData.lockedUntil = now + lockoutDuration
FailedAttempt(user, failedLoginCount, t) ==
    [failedLoginCount |-> failedLoginCount + 1,
     lockedUntil |-> IF failedLoginCount + 1 >= maxFailedAttempts
                     THEN t + lockoutDuration ELSE user.lockedUntil]

\* after await bcrypt.compare(password, user.passwordHash): the update of the
\* failed attempt and throw new Error('Invalid credentials'), or the update
\* that resets the counter and the lock
Login_update(p) ==
    /\ proc[p].op = "login" /\ proc[p].pc = "update"
    /\ IF proc[p].isValidPassword
       THEN /\ users' = [users EXCEPT ![proc[p].userId] =
                    [failedLoginCount |-> 0, lockedUntil |-> NullDate]]
            /\ proc' = [proc EXCEPT ![p] = Done("login", NoError)]
       ELSE /\ users' = [users EXCEPT ![proc[p].userId] =
                    FailedAttempt(@, proc[p].failedLoginCount, now)]
            /\ proc' = [proc EXCEPT ![p] = Done("login", PlainError("Invalid credentials"))]
    /\ Frame_login

\* the failed attempts counted for one user, and the horizon of the clock
MaxFailedCount == 6
MaxLoginNow == 45

TickLogin ==
    /\ \A p \in Procs : Free(p)
    /\ now + TickMinutes <= MaxLoginNow
    /\ now' = now + TickMinutes
    /\ resp' = NoResp
    /\ UNCHANGED <<roles, userRoles, uniqueIdx, roleFk, users, memoryStore, teamMembers,
                   auditLogs, incidents, proc>>

LoginUsers == {"u1"}

NextLogin ==
    \/ \E p \in Procs, userId \in LoginUsers, isValidPassword \in BOOLEAN :
            /\ users[userId].failedLoginCount < MaxFailedCount
            /\ Login_findUnique(p, userId, isValidPassword)
    \/ \E p \in Procs : Login_update(p)
    \/ TickLogin

SpecLogin == InitAudit /\ [][NextLogin]_vars

\* the same login requests made one after the other: handler slot 1 only
NextLoginSeq ==
    \/ \E userId \in LoginUsers, isValidPassword \in BOOLEAN :
            /\ users[userId].failedLoginCount < MaxFailedCount
            /\ Login_findUnique(1, userId, isValidPassword)
    \/ Login_update(1)
    \/ TickLogin

SpecLoginSeq == InitAudit /\ [][NextLoginSeq]_vars

\* C30: every failed password attempt adds one to the user's counter of
\* failed attempts, and the attempt that brings it to 5 or more locks the
\* account until 30 minutes later; a login made while the account is locked
\* is rejected as locked, and no login changes the counter or the lock while
\* the account is locked; a successful login sets the counter to 0 and
\* clears the lock.
C30_LockoutAfterFiveFailures ==
    [][\A p \in Procs :
        /\ (Steps(p) /\ proc[p].op = "login" /\ proc[p].pc = "update")
              => LET userId == proc[p].userId
                 IN  /\ ~IsLocked(users[userId], now)
                     /\ ~proc[p].isValidPassword
                          => /\ users'[userId].failedLoginCount
                                    = users[userId].failedLoginCount + 1
                             /\ users'[userId].failedLoginCount >= 5
                                    => users'[userId].lockedUntil = now + 30
                     /\ proc[p].isValidPassword
                          => /\ users'[userId].failedLoginCount = 0
                             /\ users'[userId].lockedUntil = NullDate
        /\ (Steps(p) /\ Free(p) /\ proc'[p].op = "login"
                /\ \E userId \in LoginUsers : IsLocked(users[userId], now))
              => /\ proc'[p] = Done("login", PlainError("Account locked"))
                 /\ users' = users]_vars

====
